---- MODULE Spec2Model ----
(***************************************************************************)
(* State-machine model of the document session controller of Lagrange     *)
(* (documentwidget.c): request lifecycle, redirect policy, media           *)
(* sub-requests and the command queue that connects the network thread to  *)
(* the owning (UI) thread.                                                  *)
(***************************************************************************)
EXTENDS Integers, Sequences, FiniteSets, TLC

(* ---------------------------------------------------------------------- *)
(* Bounds of the model                                                      *)
(* ---------------------------------------------------------------------- *)
NumAddrs == 2      \* heap addresses a GmRequest object can be allocated at
MaxBody == 1       \* bytes of response body the transport delivers
MaxQueue == 2      \* queued, unhandled commands
MaxUser == 2       \* navigation commands of the user in one run
MaxFollow == 1     \* followed redirects in a row (navigation runs)
MaxHist == 2       \* entries kept in the navigation history
NumLinks == 2      \* media links of a document
NumMediaAddrs == 2 \* heap addresses a MediaRequest object can be allocated at
MediaUser == 3     \* commands of the user in one run (media runs)
HistUser == 3      \* commands of the user in one run (history runs)
MaxRuns == 1       \* runs of a document below its banner
MaxWidth == 2      \* widths of the text column
MaxHeight == 2     \* heights of the widget, in lines above two page margins
NumPre == 2        \* preformatted blocks of a document
MaxPre == 3        \* widths of a preformatted block
MaxChunks == 2     \* pieces a saved URL is put together from
MaxInterval == 8   \* largest argument of document.autoreload.set
NumLinkRuns == 2   \* runs of a document that belong to links
NumTextRuns == 3   \* text runs of a document with a selection
RunLen == 2        \* characters of a text run
MaxStep == 1       \* lines of one scroll step
MaxLines == 3      \* lines of a page of links and text
MaxKeyLinks == 27  \* links of a page whose links are all in view
DismissUser == 3   \* clicks of the user in one run (dismissal runs)
DismissQueue == 3  \* queued, unhandled commands (dismissal runs)
MaxSyncRuns == 3   \* runs of a page whose buffers are brought up to date
MaxRunHeight == 2  \* rows of one run
TexHeight == 2     \* rows of one buffer
MaxOrigin == 2     \* rows the first buffer can begin at
MaxPages == 2      \* pages of ordinals the base is raised by (paging runs)
MaxTimerRuns == 2  \* runs of a page with media (timer runs)

(* Program constant: the redirect limit of checkResponse_DocumentWidget_.  *)
MaxRedirects == 5

(* Program constant: the buffers of the visible content.                   *)
NumBuffers == 3

Addrs == 1..NumAddrs
LinkIds == 1..NumLinks
MediaAddrs == 1..NumMediaAddrs
NullReq == 0

(* Body bytes: an ASCII letter and a Latin-1 letter above 0x7f.            *)
Bytes == {65, 233}

(* URLs are <<scheme, path>>; a redirect target may also be empty (<<>>)  *)
(* or relative (empty scheme).                                             *)
Urls == {<<"gemini", "a">>, <<"gemini", "b">>}
EmptyStr == <<>>
Targets == {EmptyStr, <<"", "b">>, <<"https", "c">>}

(* Status codes the transport can report (0 = none_GmStatusCode).          *)
NoneStatus == 0
StatusCodes == {10, 20, 30, 47, 51, 99}

(* Declared metas of a success response: a list of ';'-separated params.   *)
MimeParam(top, sub) == [k |-> "mime", top |-> top, sub |-> sub, v |-> ""]
CharsetParam(v) == [k |-> "charset", top |-> "", sub |-> "", v |-> v]
SuccessMetas ==
    { <<MimeParam("text", "gemini")>>,
      <<MimeParam("text", "gemini"), CharsetParam("iso-8859-1")>>,
      <<MimeParam("text", "plain")>>,
      <<MimeParam("application", "json")>>,
      <<MimeParam("image", "png")>>,
      <<MimeParam("audio", "ogg")>>,
      <<MimeParam("application", "zip")>> }

VARIABLES
    d,        \* the fields of struct Impl_DocumentWidget
    heap,     \* GmRequest objects by address: the transport's side
    queue,    \* the application's command queue (FIFO)
    pc,       \* position of the owning thread inside a handler
    nuser,    \* user commands posted so far
    emitted,  \* the commands the last step posted or emitted
    last,     \* the last step: its operation, whether its guard passed,
              \* and the lifecycle state and request ownership it started from
    view      \* the fields of the widget that present the document

vars == <<d, heap, queue, pc, nuser, emitted, last, view>>

(* ---------------------------------------------------------------------- *)
(* Collaborators outside documentwidget.c                                  *)
(* ---------------------------------------------------------------------- *)

(* category_GmStatusCode: the tens digit classifies the status.            *)
category_GmStatusCode(code) ==
    CASE code \div 10 = 1 -> "input"
      [] code \div 10 = 2 -> "success"
      [] code \div 10 = 3 -> "redirect"
      [] code \div 10 = 4 -> "temporaryFailure"
      [] code \div 10 = 5 -> "permanentFailure"
      [] OTHER -> "unknown"

isSuccess_GmStatusCode(code) == category_GmStatusCode(code) = "success"

(* isDefined_GmError: status codes that have an error page of their own.   *)
isDefined_GmError(code) == code \in {40, 44, 50, 51}

urlScheme_String(u) == IF u = EmptyStr THEN "" ELSE u[1]

(* absoluteUrl_String: a relative reference takes the scheme of the base.  *)
absoluteUrl_String(base, ref) ==
    IF ref[1] = "" THEN <<urlScheme_String(base), ref[2]>> ELSE ref


(* decode_Block for a Latin-1 source: every byte above 0x7f becomes the    *)
(* two-byte UTF-8 sequence of the same code point.                          *)
RECURSIVE decode_Block(_)
decode_Block(bytes) ==
    IF bytes = <<>> THEN <<>>
    ELSE LET b == Head(bytes)
         IN  (IF b < 128 THEN <<b>> ELSE <<192 + (b \div 64), 128 + (b % 64)>>)
             \o decode_Block(Tail(bytes))

(* A GmRequest object that has not been allocated, or has been destroyed.  *)
DeadObject ==
    [alive |-> FALSE, status |-> NoneStatus, meta |-> <<>>, target |-> EmptyStr,
     body |-> <<>>, finished |-> FALSE]

(* new_GmRequest: a fresh object, nothing received.                         *)
NewObject == [DeadObject EXCEPT !.alive = TRUE]

Live == {a \in Addrs : heap[a].alive}

(* ---------------------------------------------------------------------- *)
(* Documents, commands, history                                            *)
(* ---------------------------------------------------------------------- *)

(* The source text handed to the document.                                 *)
EmptySource == [kind |-> "none", bytes |-> <<>>, err |-> "", link |-> EmptyStr]
BodySource(bytes) == [EmptySource EXCEPT !.kind = "body", !.bytes = bytes]
ErrorSource(err, link) == [EmptySource EXCEPT !.kind = "error", !.err = err, !.link = link]
LinkSource(u) == [EmptySource EXCEPT !.kind = "link", !.link = u]

NoMedia == [l \in LinkIds |-> "none"]

(* new_GmDocument / reset_GmDocument: no layout, no links, no media.       *)
reset_GmDocument(doc) == [doc EXCEPT !.source = EmptySource, !.media = NoMedia]

NewDoc == [format |-> "undefined", source |-> EmptySource, media |-> NoMedia]

(* setData_Media: stores (or, without data, drops) the content of a link.  *)
setData_Media(doc, linkId, hasData, partial) ==
    [doc EXCEPT !.media[linkId] =
        IF ~hasData THEN "none" ELSE IF partial THEN "partial" ELSE "full"]

Cmd(type) ==
    [type |-> type, req |-> NullReq, redirect |-> 0, url |-> EmptyStr,
     hist |-> FALSE, link |-> 0, heading |-> ""]

(* postCommand_App / postCommand_Widget: append to the command queue; the  *)
(* command is also recorded as emitted by the running handler.             *)
Post(w, cmd) ==
    [w EXCEPT !.queue = Append(@, cmd), !.emitted = Append(@, cmd.type)]

(* A command that only other parts of the application handle.              *)
Emit(w, type) == [w EXCEPT !.emitted = Append(@, type)]

(* history.c: the navigation history is a list of visited URLs, newest     *)
(* last, each with an optional cached response; pos counts back from the   *)
(* newest entry.                                                            *)
NewHistory == [recent |-> <<>>, pos |-> 0]

HistIndex(h) == Len(h.recent) - h.pos

mostRecentUrl_History(h) == h.recent[HistIndex(h)]

add_History(h, u) ==
    LET kept == SubSeq(h.recent, 1, HistIndex(h))
        grown == IF kept = <<>> \/ kept[Len(kept)].url # u
                 THEN Append(kept, [url |-> u, cached |-> DeadObject])
                 ELSE kept
        pruned == IF Len(grown) > MaxHist THEN Tail(grown) ELSE grown
    IN  [recent |-> pruned, pos |-> 0]

replace_History(h, u) ==
    IF h.recent = <<>> THEN add_History(h, u)
    ELSE [h EXCEPT !.recent[HistIndex(h)].url = u]

setCachedResponse_History(h, resp) ==
    IF h.recent = <<>> THEN h
    ELSE [h EXCEPT !.recent[HistIndex(h)].cached =
            IF isSuccess_GmStatusCode(resp.status) THEN resp ELSE DeadObject]

(* findUrl_History: the newest entry of the URL, 0 when there is none.     *)
findUrl_History(h, u) ==
    LET hits == {i \in 1..Len(h.recent) : h.recent[i].url = u}
    IN  IF hits = {} THEN 0 ELSE CHOOSE i \in hits : \A j \in hits : j <= i

(* goBack_History: step to the previous entry and ask to open it.          *)
goBack_History(w) ==
    LET h == w.d.history
    IN  IF h.pos + 1 < Len(h.recent)
        THEN Post([w EXCEPT !.d.history.pos = h.pos + 1],
                  [Cmd("open") EXCEPT !.hist = TRUE,
                                      !.url = h.recent[HistIndex(h) - 1].url])
        ELSE w

(* iRelease of a GmRequest whose only reference the widget holds: the      *)
(* object is destroyed and its transport cancelled.                        *)
ReleaseObject(hp, r) == IF r = NullReq THEN hp ELSE [hp EXCEPT ![r] = DeadObject]

(* lockResponse_GmRequest / unlockResponse_GmRequest on the primary request: *)
(* the step records the call, the pointer it is made with, and whether the  *)
(* widget owns a live request behind that pointer at that moment.           *)
LockEvent(w, e) ==
    [e |-> e, kind |-> "primary", r |-> w.d.request,
     owned |-> w.d.request # NullReq /\ w.heap[w.d.request].alive]

lockResponse_GmRequest(w) == [w EXCEPT !.locks = Append(@, LockEvent(w, "lock"))]

unlockResponse_GmRequest(w) == [w EXCEPT !.locks = Append(@, LockEvent(w, "unlock"))]

(* iReleasePtr(&d->request)                                                 *)
ReleaseRequest(w) ==
    [w EXCEPT !.heap = ReleaseObject(@, w.d.request), !.d.request = NullReq]

(* ---------------------------------------------------------------------- *)
(* documentwidget.c: the widget and its operations                          *)
(* ---------------------------------------------------------------------- *)

(* init_DocumentWidget                                                      *)
InitWidget ==
    [state |-> "blank", url |-> EmptyStr, request |-> NullReq,
     isRequestUpdated |-> FALSE, media |-> <<>>,
     sourceContent |-> <<>>, doc |-> NewDoc,
     redirectCount |-> 0, showLinkNumbers |-> FALSE, history |-> NewHistory,
     certFlags |-> {}, pendingGotoHeading |-> "",
     dispatches |-> 0]   \* dispatches: category dispatches run in this fetch

(* setSource_DocumentWidget_                                                *)
setSource_DocumentWidget_(w, src) == [w EXCEPT !.d.doc.source = src]

(* The name of the error page get_GmError gives for a status code.          *)
ErrorName(code) ==
    CASE code = 44 -> "slowDown"
      [] code = 51 -> "notFound"
      [] code = 40 -> "temporaryFailure"
      [] code = 50 -> "permanentFailure"
      [] OTHER -> "unknownStatusCode"

(* showErrorPage_DocumentWidget_ that never appends the link.               *)
showErrorPage_NoLink(w, err, meta) ==
    [setSource_DocumentWidget_([w EXCEPT !.d.doc.format = "gemini"],
                               ErrorSource(err, EmptyStr))
        EXCEPT !.d.state = "ready"]

(* showErrorPage_DocumentWidget_: the templated page replaces the          *)
(* document; the redirect errors carry the target as a link.                *)
showErrorPage_DocumentWidget_(w, err, meta) ==
    LET link == IF err \in {"schemeChangeRedirect", "tooManyRedirects"}
                THEN meta ELSE EmptyStr
        w1 == [w EXCEPT !.d.doc.format = "gemini"]
        w2 == setSource_DocumentWidget_(w1, ErrorSource(err, link))
    IN  [w2 EXCEPT !.d.state = "ready"]

(* The same without the case of application/json.                           *)
ParamFormat_TextOnly(p) ==
    IF p.k = "mime" /\ p.top = "text" /\ p.sub = "gemini" THEN "gemini"
    ELSE IF p.k = "mime" /\ p.top = "text" THEN "plainText"
    ELSE IF p.k = "mime" /\ p.top \in {"image", "audio"} THEN "media"
    ELSE IF p.k = "charset" THEN "charset"
    ELSE "other"

(* updateDocument_DocumentWidget_: what a parameter of the declared MIME    *)
(* type says about the format of the document.                              *)
ParamFormat(p) ==
    IF p.k = "mime" /\ p.top = "text" /\ p.sub = "gemini" THEN "gemini"
    ELSE IF p.k = "mime" /\
            (p.top = "text" \/ (p.top = "application" /\ p.sub = "json"))
    THEN "plainText"
    ELSE IF p.k = "mime" /\ p.top \in {"image", "audio"} THEN "media"
    ELSE IF p.k = "charset" THEN "charset"
    ELSE "other"

(* The image/audio case that stores whatever has arrived at once.           *)
MediaParam_Eager(acc, u, isAudio, isInitialUpdate, isRequestFinished) ==
    [acc EXCEPT !.docFormat = "gemini", !.str = LinkSource(u),
                !.doc = setData_Media(@, 1, TRUE, ~isRequestFinished)]

(* updateDocument_DocumentWidget_: the image/audio case, a simple document  *)
(* with an image or audio player.                                           *)
MediaParam(acc, u, isAudio, isInitialUpdate, isRequestFinished) ==
    LET a1 == [acc EXCEPT !.docFormat = "gemini"]
    IN  IF (isAudio /\ isInitialUpdate) \/ (~isAudio /\ isRequestFinished)
        THEN [a1 EXCEPT !.str = LinkSource(u),
                        !.doc = setData_Media(@, 1, TRUE, ~isRequestFinished)]
        ELSE IF isAudio /\ ~isInitialUpdate
        THEN [a1 EXCEPT !.doc = setData_Media(@, 1, TRUE, ~isRequestFinished),
                        !.setSource = FALSE]
        ELSE [a1 EXCEPT !.str = BodySource(<<>>)]

(* The loop of updateDocument_DocumentWidget_ over the parameters of the    *)
(* declared MIME type. acc carries docFormat, charset, str, setSource and   *)
(* the document.                                                            *)
RECURSIVE MimeLoop(_, _, _, _, _)
MimeLoop(params, acc, u, isInitialUpdate, isRequestFinished) ==
    IF params = <<>> THEN acc
    ELSE
      LET p == Head(params)
          next ==
            CASE ParamFormat(p) = "gemini" -> [acc EXCEPT !.docFormat = "gemini"]
              [] ParamFormat(p) = "plainText" -> [acc EXCEPT !.docFormat = "plainText"]
              [] ParamFormat(p) = "media" ->
                    MediaParam(acc, u, p.top = "audio", isInitialUpdate,
                               isRequestFinished)
              [] ParamFormat(p) = "charset" -> [acc EXCEPT !.charset = p.v]
              [] OTHER -> acc
      IN  MimeLoop(Tail(params), next, u, isInitialUpdate, isRequestFinished)

(* updateDocument_DocumentWidget_                                           *)
updateDocument_DocumentWidget_(w, response, isInitialUpdate) ==
    IF w.d.state = "ready" THEN w
    ELSE
      LET isRequestFinished ==
              w.d.request = NullReq \/ w.heap[w.d.request].finished
          statusCode == response.status
      IN  IF category_GmStatusCode(statusCode) = "input" THEN w
          ELSE
            LET w1 == w
                str0 == BodySource(response.body)
            IN  IF ~isSuccess_GmStatusCode(statusCode)
                THEN setSource_DocumentWidget_(w1, str0)
                ELSE
                  LET acc0 == [docFormat |-> "undefined", charset |-> "utf-8",
                               str |-> str0, setSource |-> TRUE,
                               doc |-> w1.d.doc]
                      acc == MimeLoop(response.meta, acc0, w1.d.url,
                                      isInitialUpdate, isRequestFinished)
                      w2 == [w1 EXCEPT !.d.doc = acc.doc]
                  IN  IF acc.docFormat = "undefined"
                      THEN showErrorPage_DocumentWidget_(
                               w2, "unsupportedMimeType", EmptyStr)
                      ELSE
                        LET str == IF acc.charset # "utf-8"
                                   THEN [acc.str EXCEPT !.bytes = decode_Block(@)]
                                   ELSE acc.str
                            w3 == [w2 EXCEPT !.d.doc.format = acc.docFormat]
                        IN  IF acc.setSource
                            THEN setSource_DocumentWidget_(w3, str)
                            ELSE w3

(* response->certFlags: the transport has the certificate of the server     *)
(* when it has the header.                                                  *)
certFlags_GmResponse(resp) ==
    IF resp.status = NoneStatus THEN {} ELSE {"available"}

(* fetch_DocumentWidget_ without the release of the previous request.       *)
fetch_NoRelease(w, a) ==
    [Emit(w, "document.request.started") EXCEPT
                   !.d.media = <<>>,
                   !.d.certFlags = {},
                   !.d.showLinkNumbers = FALSE,
                   !.d.state = "fetching",
                   !.d.isRequestUpdated = FALSE,
                   !.d.request = a,
                   !.d.dispatches = 0,
                   !.heap[a] = NewObject]

(* fetch_DocumentWidget_: a is the address new_GmRequest returns.           *)
fetch_DocumentWidget_(w, a) ==
    LET w1 == IF w.d.request # NullReq THEN ReleaseRequest(w) ELSE w
        w2 == Emit(w1, "document.request.started")
    IN  [w2 EXCEPT !.d.media = <<>>,
                   !.d.certFlags = {},
                   !.d.showLinkNumbers = FALSE,
                   !.d.state = "fetching",
                   !.d.isRequestUpdated = FALSE,
                   !.d.request = a,
                   !.d.dispatches = 0,
                   !.heap[a] = NewObject]

(* updateFromHistory_DocumentWidget_: <<served from the cache, new state>>  *)
updateFromHistory_DocumentWidget_(w, a) ==
    LET i == findUrl_History(w.d.history, w.d.url)
        hit == i # 0 /\ w.d.history.recent[i].cached.alive
    IN  IF hit
        THEN LET resp == w.d.history.recent[i].cached
                 w1 == [w EXCEPT !.d.media = <<>>,
                                 !.d.doc = reset_GmDocument(@),
                                 !.d.state = "fetching",
                                 !.d.certFlags = certFlags_GmResponse(resp),
                                 !.d.sourceContent = resp.body]
                 w2 == updateDocument_DocumentWidget_(w1, resp, TRUE)
                 w3 == [w2 EXCEPT !.d.state = "ready"]
             IN  <<TRUE, Emit(w3, "document.changed")>>
        ELSE IF w.d.url # EmptyStr
        THEN <<FALSE, fetch_DocumentWidget_(w, a)>>
        ELSE <<FALSE, w>>

(* setUrlFromCache_DocumentWidget: a1, a2 are the addresses the allocator   *)
(* returns to the first and to the second new_GmRequest of the call.        *)
setUrlFromCache_DocumentWidget(w, u, isFromCache, a1, a2) ==
    LET w1 == [w EXCEPT !.d.showLinkNumbers = FALSE, !.d.url = u]
    IN  IF ~isFromCache
        THEN fetch_DocumentWidget_(w1, a1)
        ELSE LET r == updateFromHistory_DocumentWidget_(w1, a1)
             IN  IF r[1] THEN r[2] ELSE fetch_DocumentWidget_(r[2], a2)

(* setRedirectCount_DocumentWidget                                          *)
setRedirectCount_DocumentWidget(w, count) == [w EXCEPT !.d.redirectCount = count]

(* isRequestOngoing_DocumentWidget                                          *)
isRequestOngoing_DocumentWidget(dw) == dw.request # NullReq

(* A failure status that is dropped without a page.                         *)
ShowStatusError_Dropped(w, statusCode) == w

(* checkResponse_DocumentWidget_, the default case of the dispatch: the     *)
(* page of the status code if it has one, else the page of its category.    *)
ShowStatusError(w, statusCode) ==
    LET cat == category_GmStatusCode(statusCode)
    IN  IF isDefined_GmError(statusCode)
        THEN showErrorPage_DocumentWidget_(w, ErrorName(statusCode), EmptyStr)
        ELSE IF cat = "temporaryFailure"
        THEN showErrorPage_DocumentWidget_(w, "temporaryFailure", EmptyStr)
        ELSE IF cat = "permanentFailure"
        THEN showErrorPage_DocumentWidget_(w, "permanentFailure", EmptyStr)
        ELSE showErrorPage_DocumentWidget_(w, "unknownStatusCode", EmptyStr)

(* A redirect limit that is never reached.                                  *)
NoRedirectLimit(w) == FALSE

(* checkResponse_DocumentWidget_: if (d->redirectCount >= 5)                *)
RedirectLimitReached(w) == w.d.redirectCount >= MaxRedirects

(* The category dispatch of checkResponse_DocumentWidget_ (state fetching). *)
CategoryDispatch(w, resp) ==
    LET statusCode == resp.status
        cat == category_GmStatusCode(statusCode)
    IN  CASE cat = "input" -> Emit(w, "valueinput")
          [] cat = "success" ->
                updateDocument_DocumentWidget_(
                    [w EXCEPT !.d.doc = reset_GmDocument(@)], resp, TRUE)
          [] cat = "redirect" ->
                IF resp.target = EmptyStr
                THEN showErrorPage_DocumentWidget_(w, "invalidRedirect", EmptyStr)
                ELSE
                  LET dstUrl == absoluteUrl_String(w.d.url, resp.target)
                      w1 == IF RedirectLimitReached(w)
                            THEN showErrorPage_DocumentWidget_(
                                     w, "tooManyRedirects", dstUrl)
                            ELSE IF urlScheme_String(dstUrl) = urlScheme_String(w.d.url)
                            THEN Post(w, [Cmd("open") EXCEPT
                                            !.redirect = w.d.redirectCount + 1,
                                            !.url = dstUrl])
                            ELSE showErrorPage_DocumentWidget_(
                                     w, "schemeChangeRedirect", dstUrl)
                  IN  ReleaseRequest(unlockResponse_GmRequest(w1))
          [] OTHER -> ShowStatusError(w, statusCode)

(* checkResponse_DocumentWidget_ that dispatches whatever the state is.      *)
checkResponse_Redispatch(w) ==
    IF w.d.request = NullReq \/ w.heap[w.d.request].status = NoneStatus THEN w
    ELSE CategoryDispatch([w EXCEPT !.d.state = "receivedPartial",
                                    !.d.dispatches = @ + 1],
                          w.heap[w.d.request])

(* checkResponse_DocumentWidget_                                            *)
checkResponse_DocumentWidget_(w) ==
    IF w.d.request = NullReq THEN w
    ELSE
      LET resp == w.heap[w.d.request]
          statusCode == resp.status
          w0 == lockResponse_GmRequest(w)
      IN  IF statusCode = NoneStatus THEN w
          ELSE unlockResponse_GmRequest(
                 IF w.d.state = "fetching"
                 THEN CategoryDispatch(
                          [w0 EXCEPT !.d.state = "receivedPartial",
                                     !.d.certFlags = certFlags_GmResponse(resp),
                                     !.d.dispatches = @ + 1], resp)
                 ELSE IF w.d.state = "receivedPartial"
                 THEN IF category_GmStatusCode(statusCode) = "success"
                      THEN updateDocument_DocumentWidget_(w0, resp, FALSE)
                      ELSE w0
                 ELSE w0)

(* ---------------------------------------------------------------------- *)
(* Media sub-requests                                                       *)
(* ---------------------------------------------------------------------- *)

(* findMediaRequest_DocumentWidget_: index of the first request of the     *)
(* link, 0 when there is none.                                              *)
findMediaRequest_DocumentWidget_(dw, linkId) ==
    LET hits == {i \in 1..Len(dw.media) : dw.media[i].linkId = linkId}
    IN  IF hits = {} THEN 0 ELSE CHOOSE i \in hits : \A j \in hits : i <= j

RemoveAt(s, i) == SubSeq(s, 1, i - 1) \o SubSeq(s, i + 1, Len(s))

(* A removal that leaves the list as it is.                                 *)
removeMediaRequest_Kept(w, linkId) == w

(* removeMediaRequest_DocumentWidget_: drops the first request of the link. *)
removeMediaRequest_DocumentWidget_(w, linkId) ==
    LET i == findMediaRequest_DocumentWidget_(w.d, linkId)
    IN  IF i = 0 THEN w ELSE [w EXCEPT !.d.media = RemoveAt(@, i)]

(* new_MediaRequest: the sub-request object at address a, fetch submitted.  *)
new_MediaRequest(linkId, a) ==
    [linkId |-> linkId, addr |-> a, status |-> NoneStatus, kind |-> "",
     finished |-> FALSE]

(* requestMedia_DocumentWidget_ that does not look for an existing request. *)
requestMedia_Unchecked(w, linkId, a) ==
    <<TRUE, [w EXCEPT !.d.media = Append(@, new_MediaRequest(linkId, a))]>>

(* requestMedia_DocumentWidget_: <<return value, new state>>                *)
requestMedia_DocumentWidget_(w, linkId, a) ==
    IF findMediaRequest_DocumentWidget_(w.d, linkId) = 0
    THEN <<TRUE, [w EXCEPT !.d.media = Append(@, new_MediaRequest(linkId, a))]>>
    ELSE <<FALSE, w>>

(* handleMediaCommand_DocumentWidget_                                       *)
handleMediaCommand_DocumentWidget_(w, cmd) ==
    LET ours == {i \in 1..Len(w.d.media) : w.d.media[i].addr = cmd.req}
    IN  IF ours = {} THEN w
        ELSE
          LET req == w.d.media[CHOOSE i \in ours : TRUE]
              ok == isSuccess_GmStatusCode(req.status)
              lock(e) == [e |-> e, kind |-> "media", r |-> req.addr, owned |-> TRUE]
          IN  IF cmd.type = "media.updated"
              THEN IF ok
                   THEN [w EXCEPT !.d.doc = IF req.kind = "audio"
                                            THEN setData_Media(@, req.linkId, TRUE, TRUE)
                                            ELSE @,
                                  !.locks = @ \o <<lock("lock"), lock("unlock")>>]
                   ELSE w
              ELSE IF ok
                   THEN IF req.kind \in {"image", "audio"}
                        THEN [w EXCEPT !.d.doc =
                                 setData_Media(@, req.linkId, TRUE, FALSE)]
                        ELSE w
                   ELSE removeMediaRequest_DocumentWidget_(
                            Emit(w, "message"), req.linkId)

(* processEvent_DocumentWidget_, finished_ClickResult on a media link.      *)
ClickMediaLink(w, linkId, a) ==
    LET content == w.d.doc.media[linkId] # "none"
        permanent == w.d.doc.source.kind = "link"
    IN  IF content /\ permanent THEN w
        ELSE
          LET r == requestMedia_DocumentWidget_(w, linkId, a)
          IN  IF r[1] THEN r[2]
              ELSE IF content
              THEN LET w1 == [w EXCEPT !.d.doc =
                                  setData_Media(@, linkId, FALSE, FALSE)]
                       i == findMediaRequest_DocumentWidget_(w1.d, linkId)
                   IN  IF ~w1.d.media[i].finished
                       THEN removeMediaRequest_DocumentWidget_(w1, linkId)
                       ELSE w1
              ELSE [w EXCEPT !.d.doc = setData_Media(@, linkId, TRUE, FALSE)]

(* ---------------------------------------------------------------------- *)
(* Presentation: layout, scrolling                                          *)
(* ---------------------------------------------------------------------- *)

Min(a, b) == IF a < b THEN a ELSE b

Max(a, b) == IF a > b THEN a ELSE b

(* The range of the C type int.                                             *)
IntMax == 2147483647

IntMin == -IntMax - 1

(* a + b in int. A sum outside the range of int is undefined behaviour:     *)
(* ov stands for whatever value the build produces.                         *)
Overflows(a, b) == (b > 0 /\ a > IntMax - b) \/ (b < 0 /\ a < IntMin - b)

AddInt(a, b, ov) == IF Overflows(a, b) THEN ov ELSE a + b

(* Values an overflowed sum is sampled from.                                *)
IntSamples == {IntMin, -1, 0, 1, IntMax}

Outcomes(a, b) == IF Overflows(a, b) THEN IntSamples ELSE {0}

(* d->pageMargin = 5 (init_DocumentWidget), in units of gap_UI.             *)
pageMargin == 5

gap_UI == 1

(* lineHeight_Text(paragraph_FontId)                                        *)
lineHeight == 4

(* Frames an eased scroll takes (smoothDuration_DocumentWidget_).           *)
smoothDuration == 2

(* A document is its runs, top to bottom: an optional site banner, then    *)
(* paragraphs of text and inline media.                                     *)
RunKinds == {"text", "media"}

Bodies == UNION {[1..n -> RunKinds] : n \in 0..MaxRuns}

Docs == Bodies \cup {<<"banner">> \o b : b \in Bodies}

Widths == 1..MaxWidth

Heights == {2 * pageMargin * gap_UI + lineHeight * k : k \in 1..MaxHeight}

(* Layout (gmdocument.c): a paragraph wraps to two lines in the narrowest   *)
(* column, inline media scales with the column.                             *)
RunHeight(kind, width) ==
    CASE kind = "text" -> IF width = 1 THEN 2 * lineHeight ELSE lineHeight
      [] kind = "media" -> 4 * lineHeight * width
      [] kind = "banner" -> 2 * lineHeight
      [] kind = "marker" -> 0   \* a link's icon, left of the link's text

(* The heights of the runs lo..hi, added up.                                *)
RECURSIVE SumHeights(_, _, _, _)
SumHeights(doc, width, lo, hi) ==
    IF lo > hi THEN 0
    ELSE IF lo = hi THEN RunHeight(doc[lo], width)
    ELSE LET mid == (lo + hi) \div 2
         IN  SumHeights(doc, width, lo, mid) + SumHeights(doc, width, mid + 1, hi)

(* The top of run i: the runs before it are stacked from 0.                 *)
RunTop(doc, width, i) == SumHeights(doc, width, 1, i - 1)

(* size_GmDocument(doc).y                                                   *)
size_GmDocument(doc, width) == RunTop(doc, width, Len(doc) + 1)

hasSiteBanner_GmDocument(doc) == doc # <<>> /\ doc[1] = "banner"

(* init_Anim                                                                *)
init_Anim(value) == [from |-> value, to |-> value, left |-> 0, flags |-> "none"]

(* isFinished_Anim: left counts the frames until the animation is due.      *)
isFinished_Anim(a) == a.from = a.to \/ a.left = 0

(* valueAt_Anim_: an animation of smoothDuration frames is seen at its     *)
(* start, half-way (t = 1/2: easeBoth gives 1/2, easeOut 3/4) and when due; *)
(* positions are whole pixels.                                              *)
valueAt_Anim_(a) ==
    IF a.left = 0 THEN a.to
    ELSE IF a.left >= smoothDuration THEN a.from
    ELSE CASE a.flags = "easeBoth" -> (a.from + a.to) \div 2
           [] a.flags = "easeOut" -> (a.from + 3 * a.to) \div 4
           [] OTHER -> (a.from + a.to) \div 2

value_Anim(a) == valueAt_Anim_(a)

targetValue_Anim(a) == a.to

(* setValue_Anim                                                            *)
setValue_Anim(a, to, span) ==
    IF span = 0 THEN [a EXCEPT !.from = to, !.to = to, !.left = 0]
    ELSE IF to # a.to
    THEN [a EXCEPT !.from = valueAt_Anim_(a), !.to = to, !.left = span]
    ELSE a

(* setValueEased_Anim                                                       *)
setValueEased_Anim(a, to, span) ==
    IF to = a.to THEN a
    ELSE IF isFinished_Anim(a)
    THEN [from |-> a.to, to |-> to, left |-> span, flags |-> "easeBoth"]
    ELSE [from |-> valueAt_Anim_(a), to |-> to, left |-> span, flags |-> "easeOut"]

(* The fields of the widget that present the document.                      *)
InitView ==
    [ doc             |-> <<>>,
      width           |-> 1,
      height          |-> 2 * pageMargin * gap_UI + lineHeight,
      smoothScrolling |-> TRUE,
      scrollY         |-> init_Anim(0),
      firstVisibleRun |-> 0,
      pre               |-> <<>>,
      visibleWideRuns   |-> {},
      mouse             |-> 0,
      wideRunOffsets    |-> <<>>,
      animWideRunId     |-> 0,
      animWideRunOffset |-> init_Anim(0),
      \* the run list animWideRunRange points into, as for refs below
      animWideRunRange  |-> "null",
      \* refreshWhileScrolling_DocumentWidget_ is among the tickers
      ticker            |-> FALSE,
      \* the run list the last tick read animWideRunRange into
      rangeRead         |-> "null",
      mod               |-> [url |-> <<>>, reloadInterval |-> 0, history |-> <<>>],
      stream            |-> <<>>,
      saved             |-> [url |-> <<>>, reloadInterval |-> 0, history |-> <<>>],
      runLink           |-> <<>>,
      visibleLinks      |-> <<>>,
      \* document_App() == d
      current           |-> TRUE,
      \* run->mediaType of the audio and download runs, by run
      runMedia          |-> <<>>,
      \* the audio players of the document's media, by run
      players           |-> <<>>,
      visibleMedia      |-> <<>>,
      mediaTimer        |-> 0,
      \* the timers of the widget that SDL runs, and the widget's last call
      timers            |-> 0,
      sdlCall           |-> "none",
      \* isValid_Time(&d->sourceTime)
      sourceValid       |-> FALSE,
      \* the last auto-reload tick: the seconds since sourceTime, and whether
      \* it posted "document.reload"
      elapsed           |-> 0,
      reloadPosted      |-> FALSE,
      invalidRuns       |-> <<>>,
      redrawn           |-> <<>>,
      done              |-> {},
      arg               |-> 0,
      again             |-> FALSE,
      selectMark        |-> [start |-> 0, end |-> 0],
      foundMark         |-> [start |-> 0, end |-> 0],
      selecting         |-> FALSE,
      marked            |-> <<>>,
      copied            |-> [start |-> 0, end |-> 0],
      showLinkNumbers   |-> FALSE,
      ordinalMode       |-> "numbersAndAlphabet",
      ordinalBase       |-> 0,
      setHoverViaKeys   |-> FALSE,
      hoverLink         |-> 0,
      opened            |-> 0,
      key               |-> 0,
      keyOrd            |-> 0,
      keyChar           |-> 0,
      apple             |-> FALSE,
      heights           |-> <<>>,
      origin            |-> 0,
      bufValid          |-> <<>>,
      paint             |-> <<>>,
      \* which run list each reference of the widget points into
      refs              |-> [first |-> "null", last |-> "null", hover |-> "null",
                             context |-> "null", links |-> "null",
                             invalid |-> {}, read |-> {}] ]

(* scrollMax_DocumentWidget_                                                *)
scrollMax_DocumentWidget_(v) ==
    size_GmDocument(v.doc, v.width) - v.height
        + (IF hasSiteBanner_GmDocument(v.doc) THEN 1 ELSE 2) * pageMargin * gap_UI

(* visibleRange_DocumentWidget_                                             *)
visibleRange_DocumentWidget_(v) ==
    LET margin == IF ~hasSiteBanner_GmDocument(v.doc) THEN gap_UI * pageMargin ELSE 0
    IN  [start |-> value_Anim(v.scrollY) - margin,
         end   |-> value_Anim(v.scrollY) + v.height - margin]

(* render_GmDocument with addVisible_DocumentWidget_: the first run in the  *)
(* range that is neither decoration nor media, 0 (NULL) when there is none. *)
FirstVisible(v) ==
    LET r == visibleRange_DocumentWidget_(v)
        vis == {i \in 1..Len(v.doc) :
                  /\ v.doc[i] = "text"
                  /\ RunTop(v.doc, v.width, i) < r.end
                  /\ RunTop(v.doc, v.width, i + 1) > r.start}
    IN  IF vis = {} THEN 0 ELSE CHOOSE i \in vis : \A j \in vis : i <= j

(* The bottom of a run; a link's icon is one line high.                     *)
RunBottom(doc, width, i) ==
    RunTop(doc, width, i)
        + (IF doc[i] = "marker" THEN lineHeight ELSE RunHeight(doc[i], width))

(* The link a run belongs to, 0 when it belongs to none.                    *)
LinkOf(v, run) == IF run \in DOMAIN v.runLink THEN v.runLink[run] ELSE 0

(* render_GmDocument with addVisible_DocumentWidget_: the runs in the range *)
(* that have a link, in document order.                                     *)
VisibleLinks(v) ==
    LET r == visibleRange_DocumentWidget_(v)
    IN  SelectSeq([i \in 1..Len(v.doc) |-> i],
                  LAMBDA i : /\ LinkOf(v, i) # 0
                             /\ RunTop(v.doc, v.width, i) < r.end
                             /\ RunBottom(v.doc, v.width, i) > r.start)

(* a < b for unsigned values, the largest ones written as negative numbers. *)
LessU(a, b) == IF a >= 0 THEN b < 0 \/ a < b ELSE b < 0 /\ a < b

(* run->mediaType: "none" for a run that is neither audio nor a download.   *)
MediaTypeOf(v, run) == IF run \in DOMAIN v.runMedia THEN v.runMedia[run] ELSE "none"

(* render_GmDocument with addVisible_DocumentWidget_: the audio and         *)
(* download runs in the range, in document order.                           *)
VisibleMedia(v) ==
    LET r == visibleRange_DocumentWidget_(v)
    IN  SelectSeq([i \in 1..Len(v.doc) |-> i],
                  LAMBDA i : /\ MediaTypeOf(v, i) \in {"audio", "download"}
                             /\ RunTop(v.doc, v.width, i) < r.end
                             /\ RunBottom(v.doc, v.width, i) > r.start)

(* ~0u, written as -1 as iInvalidPos is: the largest value of the type.     *)
invalidInterval_ == -1

(* The interval one visible media run asks for; ~0u when it asks for none.  *)
RunInterval(v, run) ==
    IF MediaTypeOf(v, run) = "audio"
    THEN IF v.players[run].adjustingVolume
            \/ (v.players[run].started /\ ~v.players[run].paused)
         THEN 1000 \div 15 ELSE invalidInterval_
    ELSE IF MediaTypeOf(v, run) = "download" THEN 1000
    ELSE invalidInterval_

(* mediaUpdateInterval_DocumentWidget_: iMin in the order of uint32_t.      *)
mediaUpdateInterval_DocumentWidget_(v) ==
    IF ~v.current THEN 0
    ELSE LET all == {RunInterval(v, v.visibleMedia[i]) : i \in 1..Len(v.visibleMedia)}
                       \cup {invalidInterval_}
             interval == CHOOSE x \in all : \A y \in all : x = y \/ LessU(x, y)
         IN  IF interval # invalidInterval_ THEN interval ELSE 0

(* SDL_RemoveTimer(d->mediaTimer); d->mediaTimer = 0                        *)
RemoveMediaTimer(v) ==
    [v EXCEPT !.mediaTimer = 0, !.timers = @ - 1, !.sdlCall = "remove"]

(* d->mediaTimer = SDL_AddTimer(...): the timers of SDL have ids from 1.    *)
AddMediaTimer(v) ==
    [v EXCEPT !.mediaTimer = 1, !.timers = @ + 1, !.sdlCall = "add"]

(* animateMedia_DocumentWidget_ that asks neither for the current document  *)
(* nor for the interval.                                                    *)
animateMedia_Always(v) ==
    IF v.mediaTimer = 0 THEN AddMediaTimer(v) ELSE v

(* animateMedia_DocumentWidget_                                             *)
animateMedia_DocumentWidget_(v) ==
    IF ~v.current
    THEN IF v.mediaTimer # 0 THEN RemoveMediaTimer(v) ELSE v
    ELSE IF mediaUpdateInterval_DocumentWidget_(v) # 0 /\ v.mediaTimer = 0
    THEN AddMediaTimer(v)
    ELSE v

(* updateMedia_DocumentWidget_; idle are the players whose                  *)
(* idleTimeMs_Player is above 3000.                                         *)
updateMedia_DocumentWidget_(v, idle) ==
    LET v1 == IF v.current
              THEN [v EXCEPT !.players =
                      [run \in DOMAIN @ |->
                         IF /\ \E i \in 1..Len(v.visibleMedia) : v.visibleMedia[i] = run
                            /\ MediaTypeOf(v, run) = "audio"
                            /\ run \in idle /\ ~@[run].volumeGrabbed
                            /\ @[run].adjustingVolume
                         THEN [@[run] EXCEPT !.adjustingVolume = FALSE]
                         ELSE @[run]]]
              ELSE v
    IN  IF v1.mediaTimer # 0 /\ mediaUpdateInterval_DocumentWidget_(v1) = 0
        THEN RemoveMediaTimer(v1)
        ELSE v1

(* updateVisible_DocumentWidget_                                            *)
updateVisible_DocumentWidget_(v) ==
    animateMedia_DocumentWidget_(
        [v EXCEPT !.firstVisibleRun = FirstVisible(v),
                  !.visibleLinks = VisibleLinks(v),
                  !.visibleMedia = VisibleMedia(v)])

(* documentRunsInvalidated_DocumentWidget_                                  *)
documentRunsInvalidated_DocumentWidget_(v) == [v EXCEPT !.firstVisibleRun = 0]

(* smoothScroll_DocumentWidget_                                             *)
smoothScroll_DocumentWidget_(v, offset, duration, ov) ==
    LET dur == IF ~v.smoothScrolling THEN 0 ELSE duration
        sum == AddInt(targetValue_Anim(v.scrollY), offset, ov)
        destY0 == IF sum < 0 THEN 0 ELSE sum
        scrollMax == scrollMax_DocumentWidget_(v)
        destY == IF scrollMax > 0 THEN Min(destY0, scrollMax) ELSE 0
        anim == IF dur # 0 THEN setValueEased_Anim(v.scrollY, destY, dur)
                ELSE setValue_Anim(v.scrollY, destY, 0)
    IN  updateVisible_DocumentWidget_(
            [v EXCEPT !.scrollY = anim, !.ticker = IF dur > 0 THEN TRUE ELSE @])

(* scroll_DocumentWidget_                                                   *)
scroll_DocumentWidget_(v, offset) == smoothScroll_DocumentWidget_(v, offset, 0, 0)

(* scrollTo_DocumentWidget_ (not centered)                                  *)
scrollTo_DocumentWidget_(v, documentY) ==
    LET y == IF ~hasSiteBanner_GmDocument(v.doc)
             THEN documentY + pageMargin * gap_UI ELSE documentY
    IN  scroll_DocumentWidget_([v EXCEPT !.scrollY = init_Anim(y - lineHeight)], 0)

(* A reference into the run list after setSource_GmDocument,                *)
(* setWidth_GmDocument or redoLayout_GmDocument laid the runs out anew: it  *)
(* points into the list that was replaced.                                  *)
Replaced(g) == IF g = "current" THEN "previous" ELSE g

(* updateDocumentWidthRetainingScrollPosition_DocumentWidget_ with          *)
(* keepCenter false, after the widget got its new bounds: the first visible *)
(* run is kept where it was; without such a run nothing is scrolled.        *)
updateDocumentWidthRetainingScrollPosition_DocumentWidget_(v, width, height) ==
    LET run == v.firstVisibleRun
        v0 == [v EXCEPT !.height = height]
        voffset == IF run # 0
                   THEN visibleRange_DocumentWidget_(v0).start
                            - RunTop(v.doc, v.width, run)
                   ELSE 0
        v1 == documentRunsInvalidated_DocumentWidget_(
                  [v0 EXCEPT !.width = width, !.animWideRunRange = Replaced(@)])
    IN  IF run # 0
        THEN scrollTo_DocumentWidget_(v1, RunTop(v1.doc, width, run) + lineHeight + voffset)
        ELSE v1

(* "scroll.top"                                                             *)
ScrollTop(v) ==
    updateVisible_DocumentWidget_(
        scroll_DocumentWidget_([v EXCEPT !.scrollY = init_Anim(0)], 0))

(* "scroll.bottom"                                                          *)
ScrollBottom(v) ==
    updateVisible_DocumentWidget_(
        scroll_DocumentWidget_(
            [v EXCEPT !.scrollY = init_Anim(scrollMax_DocumentWidget_(v))], 0))

(* One frame passes.                                                        *)
Later(a) == [a EXCEPT !.left = Max(0, @ - 1)]

(* refreshWhileScrolling_DocumentWidget_, one frame later.                  *)
refreshWhileScrolling_DocumentWidget_(v) ==
    LET v1 == updateVisible_DocumentWidget_(
                  [v EXCEPT !.scrollY = Later(@), !.animWideRunOffset = Later(@),
                            !.rangeRead = IF v.animWideRunId # 0
                                          THEN v.animWideRunRange ELSE "null"])
        v2 == IF isFinished_Anim(v1.animWideRunOffset)
              THEN [v1 EXCEPT !.animWideRunId = 0]
              ELSE v1
    IN  [v2 EXCEPT !.ticker = ~isFinished_Anim(v1.scrollY)
                                  \/ ~isFinished_Anim(v1.animWideRunOffset)]

(* documentWidth_DocumentWidget_: the columns are multiples of colWidth.    *)
colWidth == 8

documentWidth_DocumentWidget_(v) == colWidth * v.width

(* The widest run of a preformatted block; v.pre lists the blocks by preId. *)
PreWidths == {colWidth * k : k \in 1..MaxPre}

(* wide_GmRunFlag: the block does not fit the column.                       *)
IsWide(v, preId) == v.pre[preId] > documentWidth_DocumentWidget_(v)

(* iClamp                                                                   *)
iClamp(i, low, high) == IF i < low THEN low ELSE IF i > high THEN high ELSE i

(* resize_Array: new elements are zero.                                     *)
resize_Array(arr, size) ==
    [i \in 1..size |-> IF i <= Len(arr) THEN arr[i] ELSE 0]

(* The offset stored for a block (runOffset_DocumentWidget_).               *)
StoredOffset(v, preId) ==
    IF preId # 0 /\ preId <= Len(v.wideRunOffsets)
    THEN v.wideRunOffsets[preId] ELSE 0

(* scrollWideBlock_DocumentWidget_ that stores the sum without clamping.    *)
scrollWideBlock_Unclamped(v, preId, delta, duration, ov) ==
    IF delta = 0 \/ preId \notin v.visibleWideRuns THEN v
    ELSE LET arr == resize_Array(v.wideRunOffsets, Max(Len(v.wideRunOffsets), preId))
         IN  [v EXCEPT !.wideRunOffsets =
                           [arr EXCEPT ![preId] = AddInt(arr[preId], delta, ov)]]

(* scrollWideBlock_DocumentWidget_: preId is the block whose run the        *)
(* pointer is on, 0 when it is on none.                                     *)
scrollWideBlock_DocumentWidget_(v, preId, delta, duration, ov) ==
    IF delta = 0 \/ preId \notin v.visibleWideRuns THEN v
    ELSE LET maxWidth == v.pre[preId]
             maxOffset == maxWidth - documentWidth_DocumentWidget_(v)
                              + pageMargin * gap_UI
             arr == IF Len(v.wideRunOffsets) <= preId
                    THEN resize_Array(v.wideRunOffsets, preId + 1)
                    ELSE v.wideRunOffsets
             oldOffset == arr[preId]
             offset == iClamp(AddInt(oldOffset, delta, ov), 0, maxOffset)
             v0 == [v EXCEPT !.wideRunOffsets = [arr EXCEPT ![preId] = offset]]
             v1 == IF oldOffset # offset
                   THEN [v0 EXCEPT !.selectMark = [start |-> 0, end |-> 0],
                                   !.foundMark = [start |-> 0, end |-> 0]]
                   ELSE v0
         IN  IF duration # 0
             THEN LET a0 == IF v.animWideRunId # preId
                                  \/ isFinished_Anim(v.animWideRunOffset)
                            THEN init_Anim(oldOffset)
                            ELSE v.animWideRunOffset
                  IN  [v1 EXCEPT !.animWideRunId = preId,
                                 !.animWideRunOffset =
                                     setValueEased_Anim(a0, offset, duration),
                                 !.animWideRunRange = "current",
                                 !.ticker = TRUE]
             ELSE [v1 EXCEPT !.animWideRunId = 0,
                             !.animWideRunOffset = init_Anim(0)]

(* ---------------------------------------------------------------------- *)
(* The state machine                                                        *)
(* ---------------------------------------------------------------------- *)

Init ==
    /\ d = InitWidget
    /\ heap = [a \in Addrs |-> DeadObject]
    /\ queue = <<>>
    /\ pc = "idle"
    /\ nuser = 0
    /\ emitted = <<>>
    /\ last = [op |-> "init", hit |-> FALSE, state0 |-> "blank", req0 |-> FALSE,
             locks |-> <<>>]
    /\ view = InitView

(* The state a handler starts from: the head of the queue is consumed.      *)
World ==
    [d |-> d, heap |-> heap, queue |-> Tail(queue), emitted |-> <<>>, locks |-> <<>>]

(* The state a step of the network thread starts from.                      *)
NetWorld ==
    [d |-> d, heap |-> heap, queue |-> queue, emitted |-> <<>>, locks |-> <<>>]

Step(op, hit) ==
    [op |-> op, hit |-> hit, state0 |-> d.state, req0 |-> d.request # NullReq,
     locks |-> <<>>]

Commit(w, op, hit) ==
    /\ d' = w.d
    /\ heap' = w.heap
    /\ queue' = w.queue
    /\ emitted' = w.emitted
    /\ last' = [Step(op, hit) EXCEPT !.locks = w.locks]
    /\ view' = view

Handling(type) == pc = "idle" /\ queue # <<>> /\ Head(queue).type = type

(* Addresses the allocator can return once the widget's request is freed.   *)
(* Addresses are interchangeable, so of those that no pointer in the        *)
(* widget or in a queued command names only the least is considered.        *)
KnownAddrs == {d.request} \cup {queue[i].req : i \in 1..Len(queue)}

FreeAddrs ==
    LET free == Addrs \ (Live \ {d.request})
        fresh == free \ KnownAddrs
    IN  (free \cap KnownAddrs)
        \cup (IF fresh = {} THEN {} ELSE {CHOOSE a \in fresh : \A b \in fresh : a <= b})

FreeMediaAddrs == MediaAddrs \ {d.media[i].addr : i \in 1..Len(d.media)}

MediaAllocChoices == IF FreeMediaAddrs = {} THEN MediaAddrs ELSE FreeMediaAddrs

(* The commands a user can cause.                                           *)
OpenCmd(u) == [Cmd("open") EXCEPT !.url = u]

NavCmds ==
    {OpenCmd(u) : u \in Urls}
    \cup {Cmd("document.stop"), Cmd("document.reload"), Cmd("navigate.back")}

MediaCmds ==
    {OpenCmd(<<"gemini", "a">>), Cmd("document.reload")}
    \cup {[Cmd("click") EXCEPT !.link = l] : l \in LinkIds}

UserPostUpTo(cmds, max, len) ==
    /\ pc = "idle"
    /\ nuser < max
    /\ Len(queue) < len
    /\ \E c \in cmds :
          /\ queue' = Append(queue, c)
          /\ emitted' = <<c.type>>
          /\ last' = Step("user", TRUE)
    /\ nuser' = nuser + 1
    /\ UNCHANGED <<d, heap, pc, view>>

UserPost(cmds, max) == UserPostUpTo(cmds, max, MaxQueue)

UserNavigates == UserPost(NavCmds, MaxUser)

UserClicks == UserPost(MediaCmds, MediaUser)

UserOpens == UserPost({OpenCmd(<<"gemini", "a">>)}, 1)

UserBrowses == UserPost(NavCmds, HistUser)

(* app.c, "open": records the URL in the history (a redirect replaces the  *)
(* current entry), passes the redirect count on and sets the URL.          *)
HandleOpenBody(w, cmd, a1, a2) ==
    LET h == w.d.history
        h1 == IF cmd.hist THEN h
              ELSE IF cmd.redirect # 0 THEN replace_History(h, cmd.url)
              ELSE add_History(h, cmd.url)
        w1 == setRedirectCount_DocumentWidget([w EXCEPT !.d.history = h1], cmd.redirect)
    IN  setUrlFromCache_DocumentWidget(w1, cmd.url, cmd.hist, a1, a2)

HandleOpen ==
    /\ Handling("open")
    /\ \E a1 \in FreeAddrs, a2 \in FreeAddrs :
          Commit(HandleOpenBody(World, Head(queue), a1, a2), "open", TRUE)
    /\ UNCHANGED <<pc, nuser>>

(* handleCommand_DocumentWidget_, "document.reload"                         *)
HandleReload ==
    /\ Handling("document.reload")
    /\ \E a \in FreeAddrs :
          Commit(fetch_DocumentWidget_(World, a), "document.reload", TRUE)
    /\ UNCHANGED <<pc, nuser>>

(* "document.stop" without the test for an owned request.                   *)
HandleStopBody_Unguarded(w) ==
    LET w1 == ReleaseRequest(Emit(w, "document.request.cancelled"))
    IN  IF w1.d.state # "ready"
        THEN Post([w1 EXCEPT !.d.state = "ready"], Cmd("navigate.back"))
        ELSE w1

(* handleCommand_DocumentWidget_, "document.stop"                           *)
HandleStopBody(w) ==
    IF w.d.request # NullReq
    THEN LET w1 == ReleaseRequest(Emit(w, "document.request.cancelled"))
         IN  IF w1.d.state # "ready"
             THEN Post([w1 EXCEPT !.d.state = "ready"], Cmd("navigate.back"))
             ELSE w1
    ELSE w

HandleStop ==
    /\ Handling("document.stop")
    /\ Commit(HandleStopBody(World), "document.stop", d.request # NullReq)
    /\ UNCHANGED <<pc, nuser>>

(* handleCommand_DocumentWidget_, "navigate.back"                           *)
HandleNavigateBackBody(w) ==
    LET w1 == IF w.d.request # NullReq
              THEN ReleaseRequest(Emit(w, "document.request.cancelled"))
              ELSE w
    IN  goBack_History(w1)

HandleNavigateBack ==
    /\ Handling("navigate.back")
    /\ Commit(HandleNavigateBackBody(World), "navigate.back", TRUE)
    /\ UNCHANGED <<pc, nuser>>

(* handleCommand_DocumentWidget_, "document.request.updated": everything   *)
(* up to the reset of the update flag.                                      *)
UpdatedAccepts(dw, cmd) == dw.request # NullReq /\ cmd.req = dw.request

(* "document.request.updated" that takes an update after the first for     *)
(* the completion.                                                          *)
HandleUpdatedBody_Completes(w) ==
    LET w1 == checkResponse_DocumentWidget_(
                  [w EXCEPT !.d.sourceContent = w.heap[w.d.request].body])
    IN  IF w.d.state = "receivedPartial" THEN [w1 EXCEPT !.d.state = "ready"] ELSE w1

HandleUpdatedBody(w) ==
    checkResponse_DocumentWidget_(
        unlockResponse_GmRequest(
            [lockResponse_GmRequest(w) EXCEPT
                !.d.sourceContent = w.heap[w.d.request].body]))

HandleUpdated ==
    /\ Handling("document.request.updated")
    /\ IF UpdatedAccepts(d, Head(queue))
       THEN /\ Commit(HandleUpdatedBody(World), "document.request.updated", TRUE)
            /\ pc' = "updated.reset"
       ELSE /\ Commit(World, "document.request.updated", FALSE)
            /\ pc' = pc
    /\ UNCHANGED nuser

(* ... set_Atomic(&d->isRequestUpdated, iFalse): ready to be notified again *)
HandleUpdatedReset ==
    /\ pc = "updated.reset"
    /\ d' = [d EXCEPT !.isRequestUpdated = FALSE]
    /\ pc' = "idle"
    /\ emitted' = <<>>
    /\ last' = Step("updated.reset", TRUE)
    /\ UNCHANGED <<heap, queue, nuser, view>>

(* A guard that accepts every finished notification.                        *)
FinishedAccepts_Any(dw, cmd) == TRUE

(* handleCommand_DocumentWidget_, "document.request.finished". The guard   *)
(* compares the pointers only.                                              *)
FinishedAccepts(dw, cmd) == cmd.req = dw.request

(* The same part without the copy of the body into the source content.      *)
FinishedCheck_NoSave(w) ==
    [checkResponse_DocumentWidget_(w) EXCEPT !.d.state = "ready"]

(* The part up to and including checkResponse and the move to ready.        *)
FinishedCheck(w) ==
    LET w1 == [w EXCEPT !.d.sourceContent = w.heap[w.d.request].body]
        w2 == checkResponse_DocumentWidget_(w1)
    IN  [w2 EXCEPT !.d.state = "ready"]

(* scrollToHeading_DocumentWidget_: the step records the call; a heading of *)
(* the document that begins with the text is scrolled to.                   *)
scrollToHeading_DocumentWidget_(w, heading) == Emit(w, "scrollToHeading")

(* The end of the handler: a pending goto is applied and forgotten.         *)
PendingGoto(w) ==
    IF w.d.pendingGotoHeading # ""
    THEN [scrollToHeading_DocumentWidget_(w, w.d.pendingGotoHeading)
             EXCEPT !.d.pendingGotoHeading = ""]
    ELSE w

(* The same part without the release.                                       *)
FinishedRelease_Kept(w) == PendingGoto(Emit(w, "document.changed"))

(* The part after it: cache the response, release the request.              *)
FinishedRelease(w) ==
    LET resp == w.heap[w.d.request]
        isText == resp.meta # <<>> /\ resp.meta[1].top = "text"
        w1 == IF urlScheme_String(w.d.url) # "about" /\ isText
              THEN unlockResponse_GmRequest(
                       [lockResponse_GmRequest(w) EXCEPT
                           !.d.history = setCachedResponse_History(@, resp)])
              ELSE w
    IN  PendingGoto(Emit(ReleaseRequest(w1), "document.changed"))

(* Reading through d->request when it is NULL is undefined: the handler    *)
(* stops there (the process is killed), or the read yields text that is    *)
(* not "text/" and the handler runs on without caching.                     *)
HandleFinished ==
    /\ Handling("document.request.finished")
    /\ IF ~FinishedAccepts(d, Head(queue))
       THEN Commit(World, "document.request.finished", FALSE) /\ pc' = pc
       ELSE IF d.request = NullReq
       THEN Commit(World, "document.request.finished", TRUE) /\ pc' = "crashed"
       ELSE LET w == FinishedCheck(World)
            IN  IF w.d.request = NullReq
                THEN \/ Commit(w, "document.request.finished", TRUE) /\ pc' = "crashed"
                     \/ Commit(PendingGoto(Emit(w, "document.changed")),
                               "document.request.finished", TRUE) /\ pc' = pc
                ELSE Commit(FinishedRelease(w), "document.request.finished", TRUE)
                     /\ pc' = pc
    /\ UNCHANGED nuser

(* handleCommand_DocumentWidget_, "document.goto" with a heading            *)
HandleGotoBody(w, heading) ==
    IF w.d.request # NullReq
    THEN [w EXCEPT !.d.pendingGotoHeading = heading]
    ELSE scrollToHeading_DocumentWidget_(w, heading)

HandleGoto ==
    /\ Handling("document.goto")
    /\ Commit(HandleGotoBody(World, Head(queue).heading), "document.goto", TRUE)
    /\ UNCHANGED <<pc, nuser>>

(* handleCommand_DocumentWidget_, "media.updated" / "media.finished"        *)
HandleMedia ==
    /\ pc = "idle" /\ queue # <<>>
    /\ Head(queue).type \in {"media.updated", "media.finished"}
    /\ Commit(handleMediaCommand_DocumentWidget_(World, Head(queue)),
              Head(queue).type,
              \E i \in 1..Len(d.media) : d.media[i].addr = Head(queue).req)
    /\ UNCHANGED <<pc, nuser>>

(* A click needs a hover link: the state is ready or receivedPartial and    *)
(* the document shows text with links.                                      *)
HasMediaLinks(dw) ==
    /\ dw.state \in {"ready", "receivedPartial"}
    /\ \/ dw.doc.source.kind = "link"
       \/ dw.doc.source.kind = "body" /\ dw.doc.source.bytes # <<>>

HandleClick ==
    /\ Handling("click")
    /\ IF HasMediaLinks(d)
       THEN \E a \in MediaAllocChoices :
               Commit(ClickMediaLink(World, Head(queue).link, a), "click", TRUE)
       ELSE Commit(World, "click", FALSE)
    /\ UNCHANGED <<pc, nuser>>

(* ---------------------------------------------------------------------- *)
(* The network thread (gmrequest.c): it calls back into the widget only    *)
(* while the request object exists.                                         *)
(* ---------------------------------------------------------------------- *)

RECURSIVE SeqsUpTo(_)
SeqsUpTo(n) ==
    IF n = 0 THEN {<<>>}
    ELSE LET shorter == SeqsUpTo(n - 1)
         IN  shorter \cup {Append(t, b) : t \in {x \in shorter : Len(x) = n - 1},
                                          b \in Bytes}

(* The response headers the transport can report.                           *)
Header(c, m, t) == [status |-> c, meta |-> m, target |-> t]

Headers ==
    {Header(20, m, EmptyStr) : m \in SuccessMetas}
    \cup {Header(30, <<>>, t) : t \in Targets}
    \cup {Header(c, <<>>, EmptyStr) : c \in StatusCodes \ {20, 30}}

GeminiHeader == Header(20, <<MimeParam("text", "gemini")>>, EmptyStr)

(* What a request that completes without streaming can report: a local     *)
(* resource, or a failure to get a response.                                *)
LocalHeaders == {h \in Headers : h.status \in {20, 51}}

(* The headers of a run that follows a chain of redirects.                  *)
ChainHeaders == {h \in Headers : h.status = 30} \cup {GeminiHeader}

IsFollowable(h) == h.status = 30 /\ h.target # EmptyStr

(* requestUpdated_DocumentWidget_                                           *)
requestUpdated_DocumentWidget_(w) ==
    LET wasUpdated == w.d.isRequestUpdated
        w1 == [w EXCEPT !.d.isRequestUpdated = TRUE]
    IN  IF ~wasUpdated
        THEN Post(w1, [Cmd("document.request.updated") EXCEPT !.req = w.d.request])
        ELSE w1

(* requestFinished_DocumentWidget_                                          *)
requestFinished_DocumentWidget_(w) ==
    Post(w, [Cmd("document.request.finished") EXCEPT !.req = w.d.request])

NetCommitUpTo(w, op, len) ==
    /\ Len(w.queue) <= len
    /\ Commit(w, op, TRUE)
    /\ UNCHANGED <<pc, nuser>>

NetCommit(w, op) == NetCommitUpTo(w, op, MaxQueue)

(* The response header arrives.                                             *)
NetHeaderOf(hs) ==
    \E a \in Live, h \in hs :
       /\ heap[a].status = NoneStatus
       /\ NetCommit(requestUpdated_DocumentWidget_(
              [NetWorld EXCEPT !.heap[a].status = h.status,
                               !.heap[a].meta = h.meta,
                               !.heap[a].target = h.target]), "net.header")

NetHeader ==
    NetHeaderOf({h \in Headers : IsFollowable(h) => d.redirectCount < MaxFollow})

NetChainHeader == NetHeaderOf(ChainHeaders)

NetGeminiHeader == NetHeaderOf({GeminiHeader})

NetPlainHeader ==
    NetHeaderOf({h \in {GeminiHeader, Header(30, <<>>, <<"", "b">>),
                        Header(51, <<>>, EmptyStr)} :
                    IsFollowable(h) => d.redirectCount < MaxFollow})

(* More of the body arrives.                                                *)
NetData ==
    \E a \in Live, b \in Bytes :
       /\ isSuccess_GmStatusCode(heap[a].status)
       /\ ~heap[a].finished
       /\ Len(heap[a].body) < MaxBody
       /\ NetCommit(requestUpdated_DocumentWidget_(
              [NetWorld EXCEPT !.heap[a].body = Append(@, b)]), "net.data")

(* The transport completes.                                                 *)
NetFinish ==
    \E a \in Live :
       /\ heap[a].status # NoneStatus
       /\ ~heap[a].finished
       /\ NetCommit(requestFinished_DocumentWidget_(
              [NetWorld EXCEPT !.heap[a].finished = TRUE]), "net.finish")

(* The transport completes without having signalled an update.              *)
NetLocal ==
    \E a \in Live, h \in LocalHeaders, b \in SeqsUpTo(MaxBody) :
       /\ heap[a].status = NoneStatus
       /\ h.status = 20 \/ b = <<>>
       /\ NetCommit(requestFinished_DocumentWidget_(
              [NetWorld EXCEPT !.heap[a].status = h.status,
                               !.heap[a].meta = h.meta,
                               !.heap[a].body = b,
                               !.heap[a].finished = TRUE]), "net.local")

(* A media sub-request reports progress (the first time, its header).       *)
MediaKinds == {"image", "audio", "other"}

MediaNetUpdateUpTo(len) ==
    \E i \in 1..Len(d.media), c \in {20, 51}, k \in MediaKinds :
       LET m == d.media[i]
       IN  /\ ~m.finished
           /\ IF m.status = NoneStatus THEN TRUE ELSE c = m.status /\ k = m.kind
           /\ NetCommitUpTo(
                  Post([NetWorld EXCEPT !.d.media[i].status = c,
                                        !.d.media[i].kind = k],
                       [Cmd("media.updated") EXCEPT !.req = m.addr,
                                                    !.link = m.linkId]),
                  "net.media.update", len)

MediaNetUpdate == MediaNetUpdateUpTo(MaxQueue)

MediaNetFinishUpTo(len) ==
    \E i \in 1..Len(d.media), c \in {20, 51}, k \in MediaKinds :
       LET m == d.media[i]
       IN  /\ ~m.finished
           /\ IF m.status = NoneStatus THEN TRUE ELSE c = m.status /\ k = m.kind
           /\ NetCommitUpTo(
                  Post([NetWorld EXCEPT !.d.media[i].status = c,
                                        !.d.media[i].kind = k,
                                        !.d.media[i].finished = TRUE],
                       [Cmd("media.finished") EXCEPT !.req = m.addr,
                                                     !.link = m.linkId]),
                  "net.media.finish", len)

MediaNetFinish == MediaNetFinishUpTo(MaxQueue)

(* Navigation runs: the user navigates, stops and reloads while responses   *)
(* of every kind arrive.                                                    *)
Next ==
    \/ UserNavigates
    \/ HandleOpen
    \/ HandleReload
    \/ HandleStop
    \/ HandleNavigateBack
    \/ HandleUpdated
    \/ HandleUpdatedReset
    \/ HandleFinished
    \/ NetHeader
    \/ NetData
    \/ NetFinish
    \/ NetLocal

Spec == Init /\ [][Next]_vars

(* The event loop of the owning thread, seen at the queue: it takes the     *)
(* command at the head, and the handler posts at most one command; or the   *)
(* handler of an updated notification runs to its end. Within Next these    *)
(* are the steps of the handlers, and one is possible whenever a command    *)
(* is queued.                                                               *)
HandleHead ==
    \/ /\ pc = "idle" /\ queue # <<>>
       /\ pc' \in {"idle", "updated.reset", "crashed"}
       /\ \/ queue' = Tail(queue)
          \/ /\ Len(queue') = Len(queue)
             /\ SubSeq(queue', 1, Len(queue) - 1) = Tail(queue)
    \/ /\ pc = "updated.reset"
       /\ pc' = "idle"
       /\ queue' = queue

(* The loop runs as long as commands are queued.                            *)
FairSpec == Spec /\ WF_<<queue, pc>>(HandleHead)

(* Goto runs: the user opens a page and stops, and asks for a heading of    *)
(* the page while or after it loads.                                        *)
GotoCmds ==
    {OpenCmd(<<"gemini", "a">>), Cmd("document.stop")}
        \cup {[Cmd("document.goto") EXCEPT !.heading = h] : h \in {"h1", "h2"}}

UserGoesTo == UserPost(GotoCmds, MaxUser)

GotoNext ==
    \/ UserGoesTo
    \/ HandleOpen
    \/ HandleStop
    \/ HandleNavigateBack
    \/ HandleGoto
    \/ HandleUpdated
    \/ HandleUpdatedReset
    \/ HandleFinished
    \/ NetPlainHeader
    \/ NetData
    \/ NetFinish

GotoSpec == Init /\ [][GotoNext]_vars

(* Redirect runs: one navigation, answered by redirects as long as the      *)
(* servers choose.                                                          *)
ChainNext ==
    \/ UserOpens
    \/ HandleOpen
    \/ HandleUpdated
    \/ HandleUpdatedReset
    \/ HandleFinished
    \/ NetChainHeader
    \/ NetData
    \/ NetFinish

ChainSpec == Init /\ [][ChainNext]_vars

(* Media runs: the user opens a text/gemini page, reloads it and clicks on  *)
(* its media links.                                                         *)
MediaNext ==
    \/ UserClicks
    \/ HandleOpen
    \/ HandleReload
    \/ HandleClick
    \/ HandleMedia
    \/ HandleUpdated
    \/ HandleUpdatedReset
    \/ HandleFinished
    \/ NetGeminiHeader
    \/ NetData
    \/ NetFinish
    \/ MediaNetUpdate
    \/ MediaNetFinish

MediaSpec == Init /\ [][MediaNext]_vars

(* History runs: longer navigation, with a few kinds of response.           *)
HistNext ==
    \/ UserBrowses
    \/ HandleOpen
    \/ HandleReload
    \/ HandleStop
    \/ HandleNavigateBack
    \/ HandleUpdated
    \/ HandleUpdatedReset
    \/ HandleFinished
    \/ NetPlainHeader
    \/ NetData
    \/ NetFinish

HistSpec == Init /\ [][HistNext]_vars

(* Dismissal runs: a text/gemini page has been loaded; the user clicks on   *)
(* its media links, to fetch, dismiss and show again, while the             *)
(* sub-requests report progress.                                            *)
LoadedResponse ==
    [NewObject EXCEPT !.status = 20, !.meta = <<MimeParam("text", "gemini")>>,
                      !.body = <<65>>, !.finished = TRUE]

LoadedPage ==
    [InitWidget EXCEPT
        !.state = "ready", !.url = <<"gemini", "a">>,
        !.sourceContent = <<65>>,
        !.doc = [format |-> "gemini", source |-> BodySource(<<65>>),
                 media |-> NoMedia],
        !.history = [recent |-> <<[url |-> <<"gemini", "a">>,
                                   cached |-> LoadedResponse]>>,
                     pos |-> 0],
        !.dispatches = 1]

DismissInit ==
    /\ d = LoadedPage
    /\ heap = [a \in Addrs |-> DeadObject]
    /\ queue = <<>>
    /\ pc = "idle"
    /\ nuser = 0
    /\ emitted = <<>>
    /\ last = [op |-> "init", hit |-> FALSE, state0 |-> "ready", req0 |-> FALSE,
             locks |-> <<>>]
    /\ view = InitView

ClickCmds == {[Cmd("click") EXCEPT !.link = l] : l \in LinkIds}

UserClicksLinks == UserPostUpTo(ClickCmds, DismissUser, DismissQueue)

MediaNetUpdateLong == MediaNetUpdateUpTo(DismissQueue)

MediaNetFinishLong == MediaNetFinishUpTo(DismissQueue)

DismissNext ==
    \/ UserClicksLinks
    \/ HandleClick
    \/ HandleMedia
    \/ MediaNetUpdateLong
    \/ MediaNetFinishLong

DismissSpec == DismissInit /\ [][DismissNext]_vars


(* ---------------------------------------------------------------------- *)
(* Scrolling runs: a laid-out document is scrolled while the window is      *)
(* resized and frames pass.                                                 *)
(* ---------------------------------------------------------------------- *)

ViewStep(v, op) ==
    /\ view' = v
    /\ last' = Step(op, TRUE)
    /\ UNCHANGED <<d, heap, queue, pc, nuser, emitted>>

InitOthers ==
    /\ d = InitWidget
    /\ heap = [a \in Addrs |-> DeadObject]
    /\ queue = <<>>
    /\ pc = "idle"
    /\ nuser = 0
    /\ emitted = <<>>
    /\ last = [op |-> "init", hit |-> FALSE, state0 |-> "blank", req0 |-> FALSE,
             locks |-> <<>>]

ScrollInit ==
    /\ InitOthers
    /\ \E doc \in Docs, width \in Widths, height \in Heights :
          view = updateVisible_DocumentWidget_(
                     [InitView EXCEPT !.doc = doc, !.width = width, !.height = height])

Offsets ==
    {IntMin, IntMax} \cup {k * lineHeight : k \in 1..MaxStep}
        \cup {-k * lineHeight : k \in 1..MaxStep}

(* A scroll by the wheel, a key or the scroll bar.                          *)
SmoothScroll ==
    \E offset \in Offsets, duration \in {0, smoothDuration} :
      \E ov \in Outcomes(targetValue_Anim(view.scrollY), offset) :
        ViewStep(smoothScroll_DocumentWidget_(view, offset, duration, ov), "scroll")

HandleScrollTop == ViewStep(ScrollTop(view), "scroll.top")

HandleScrollBottom == ViewStep(ScrollBottom(view), "scroll.bottom")

(* "window.resized"                                                         *)
HandleWindowResized ==
    \E width \in Widths, height \in Heights :
        /\ <<width, height>> # <<view.width, view.height>>
        /\ ViewStep(updateDocumentWidthRetainingScrollPosition_DocumentWidget_(
                        view, width, height), "window.resized")

(* The ticker of a running scroll animation.                                *)
Frame ==
    /\ view.scrollY.left > 0 \/ view.animWideRunOffset.left > 0
    /\ ViewStep(refreshWhileScrolling_DocumentWidget_(view), "frame")

ScrollNext ==
    \/ SmoothScroll
    \/ HandleScrollTop
    \/ HandleScrollBottom
    \/ HandleWindowResized
    \/ Frame

ScrollSpec == ScrollInit /\ [][ScrollNext]_vars


(* ---------------------------------------------------------------------- *)
(* Wide-block runs: the preformatted blocks of a document are scrolled      *)
(* sideways with the pointer on one of them or on none.                     *)
(* ---------------------------------------------------------------------- *)

WideInit ==
    /\ InitOthers
    /\ \E pre \in [1..NumPre -> PreWidths], width \in Widths :
          LET v == [InitView EXCEPT !.pre = pre, !.width = width]
          IN  view = [v EXCEPT !.visibleWideRuns =
                                   {b \in 1..NumPre : IsWide(v, b)}]

Deltas ==
    {0, IntMin, IntMax} \cup {3 * k * lineHeight : k \in 1..MaxStep}
        \cup {-3 * k * lineHeight : k \in 1..MaxStep}

(* A horizontal wheel event with the pointer on block preId.                *)
ScrollWideBlock ==
    \E preId \in 0..NumPre, delta \in Deltas, duration \in {0, smoothDuration} :
      \E ov \in Outcomes(StoredOffset(view, preId), delta) :
        ViewStep(scrollWideBlock_DocumentWidget_(
                     [view EXCEPT !.mouse = preId], preId, delta, duration, ov),
                 "scrollWideBlock")

WideNext ==
    \/ ScrollWideBlock
    \/ Frame

WideSpec == WideInit /\ [][WideNext]_vars


(* ---------------------------------------------------------------------- *)
(* Persistent state: the URL, the reload interval and the history are       *)
(* saved to a stream of bytes and restored from it.                         *)
(* ---------------------------------------------------------------------- *)

(* " ptr:0x", the mark of a URL that a command argument leaked into.        *)
Marker == <<32, 112, 116, 114, 58, 48, 120>>

(* URLs are strings of bytes, put together from pieces of the marker and a  *)
(* letter.                                                                  *)
Chunks == {<<97>>, Marker, <<32, 112, 116, 114>>, <<58, 48, 120>>}

RECURSIVE Concat(_)
Concat(seqs) == IF seqs = <<>> THEN <<>> ELSE Head(seqs) \o Concat(Tail(seqs))

SavedUrls == {Concat(cs) : cs \in UNION {[1..n -> Chunks] : n \in 0..MaxChunks}}

(* indexOfCStr_String(str, sub) != iInvalidPos                              *)
Contains(str, sub) ==
    \E i \in 1..(Len(str) - Len(sub) + 1) : SubSeq(str, i, i + Len(sub) - 1) = sub

(* writeU16_Stream, writeU32_Stream: little-endian bytes.                   *)
U16Bytes(n) == <<n % 256, (n \div 256) % 256>>

U32Bytes(n) ==
    <<n % 256, (n \div 256) % 256, (n \div 65536) % 256, (n \div 16777216) % 256>>

(* readU16_Stream, readU32_Stream at position i of the stream.              *)
ReadU16(bytes, i) == bytes[i] + 256 * bytes[i + 1]

ReadU32(bytes, i) ==
    bytes[i] + 256 * bytes[i + 1] + 65536 * bytes[i + 2] + 16777216 * bytes[i + 3]

(* serialize_String: the size, then the bytes.                              *)
serialize_String(str) == U32Bytes(Len(str)) \o str

(* deserialize_String at position i: <<the string, the position after it>>. *)
deserialize_String(bytes, i) ==
    LET n == ReadU32(bytes, i)
    IN  <<SubSeq(bytes, i + 4, i + 3 + n), i + 4 + n>>

(* serialize_History: the number of entries, then their URLs.               *)
RECURSIVE serialize_History(_)
serialize_History(urls) ==
    IF urls = <<>> THEN <<>>
    ELSE serialize_String(Head(urls)) \o serialize_History(Tail(urls))

RECURSIVE deserialize_History(_, _, _)
deserialize_History(bytes, i, n) ==
    IF n = 0 THEN <<>>
    ELSE LET r == deserialize_String(bytes, i)
         IN  <<r[1]>> \o deserialize_History(bytes, r[2], n - 1)

(* x & 7 of a non-negative x.                                               *)
And7(x) == x % 8

(* serialize_PersistentDocumentState                                        *)
serialize_PersistentDocumentState(mod) ==
    serialize_String(mod.url)
        \o U16Bytes(And7(mod.reloadInterval))
        \o U16Bytes(Len(mod.history)) \o serialize_History(mod.history)

(* deserialize_PersistentDocumentState that keeps every URL.                *)
deserialize_Unchecked(bytes) ==
    LET r == deserialize_String(bytes, 1)
    IN  [url |-> r[1],
         reloadInterval |-> And7(ReadU16(bytes, r[2])),
         history |-> deserialize_History(bytes, r[2] + 4, ReadU16(bytes, r[2] + 2))]

(* deserialize_PersistentDocumentState                                      *)
deserialize_PersistentDocumentState(bytes) ==
    LET r == deserialize_String(bytes, 1)
        url == IF Contains(r[1], Marker) THEN <<>> ELSE r[1]
        params == ReadU16(bytes, r[2])
    IN  [url |-> url,
         reloadInterval |-> And7(params),
         history |-> deserialize_History(bytes, r[2] + 4, ReadU16(bytes, r[2] + 2))]

PersistInit ==
    /\ InitOthers
    /\ \E url \in SavedUrls : \E h \in {<<>>, <<url>>} :
          view = [InitView EXCEPT !.mod.url = url, !.mod.history = h]

(* "document.autoreload.set"                                                *)
HandleAutoreloadSet ==
    \E arg \in 0..MaxInterval :
        ViewStep([view EXCEPT !.mod.reloadInterval = arg], "document.autoreload.set")

(* The application saves the state of the widget.                           *)
Serialize ==
    ViewStep([view EXCEPT !.stream = serialize_PersistentDocumentState(view.mod),
                          !.saved = view.mod],
             "serialize")

(* The application restores a widget from the saved state.                  *)
Deserialize ==
    /\ view.stream # <<>>
    /\ ViewStep([view EXCEPT !.mod = deserialize_PersistentDocumentState(view.stream)],
                "deserialize")

PersistNext ==
    \/ HandleAutoreloadSet
    \/ Serialize
    \/ Deserialize

PersistSpec == PersistInit /\ [][PersistNext]_vars


(* ---------------------------------------------------------------------- *)
(* Invalidation: runs are marked for redrawing and redrawn by the next      *)
(* draw.                                                                    *)
(* ---------------------------------------------------------------------- *)

(* Runs are named by their position in the run array of the document: the   *)
(* runs of links first, then one run for each preformatted block.           *)
LinkRuns == 1..NumLinkRuns

PreRun(preId) == NumLinkRuns + preId

Elements(seq) == {seq[i] : i \in 1..Len(seq)}

(* The members of a set of pointers in ascending order.                     *)
RECURSIVE Ascending(_)
Ascending(set) ==
    IF set = {} THEN <<>>
    ELSE LET x == CHOOSE y \in set : \A z \in set : y <= z
         IN  <<x>> \o Ascending(set \ {x})

(* insert_PtrSet: a sorted array without duplicates.                        *)
insert_PtrSet(set, ptr) ==
    IF ptr \in Elements(set) THEN set
    ELSE SelectSeq(set, LAMBDA x : x < ptr) \o <<ptr>>
             \o SelectSeq(set, LAMBDA x : x > ptr)

(* insert_PtrSet for each run of a list. Each insertion keeps the array    *)
(* sorted and without duplicates, so the outcome holds the pointers of      *)
(* both in ascending order.                                                 *)
InsertAll(set, runs) ==
    LET all == Elements(set) \cup Elements(runs)
    IN  IF runs = <<>> THEN set
        ELSE [i \in 1..Cardinality(all) |->
                 CHOOSE x \in all : Cardinality({y \in all : y < x}) = i - 1]

(* invalidateLink_DocumentWidget_ that records a run each time.             *)
invalidateLink_Appending(v, id) ==
    [v EXCEPT !.invalidRuns =
        @ \o SelectSeq(v.visibleLinks, LAMBDA run : v.runLink[run] = id)]

(* invalidateLink_DocumentWidget_                                           *)
invalidateLink_DocumentWidget_(v, id) ==
    [v EXCEPT !.invalidRuns =
        InsertAll(@, SelectSeq(v.visibleLinks, LAMBDA run : v.runLink[run] = id))]

(* invalidateVisibleLinks_DocumentWidget_                                   *)
invalidateVisibleLinks_DocumentWidget_(v) ==
    [v EXCEPT !.invalidRuns =
        InsertAll(@, SelectSeq(v.visibleLinks, LAMBDA run : v.runLink[run] # 0))]

(* runOffset_DocumentWidget_ of the run of a preformatted block.            *)
runOffset_DocumentWidget_(v, preId) ==
    IF IsWide(v, preId)
    THEN IF v.animWideRunId = preId THEN -value_Anim(v.animWideRunOffset)
         ELSE -StoredOffset(v, preId)
    ELSE 0

(* The visible wide blocks that are scrolled sideways, in document order.   *)
WideNonzero(v) ==
    SelectSeq(Ascending(v.visibleWideRuns),
              LAMBDA preId : runOffset_DocumentWidget_(v, preId) # 0)

(* invalidateWideRunsWithNonzeroOffset_DocumentWidget_                      *)
invalidateWideRunsWithNonzeroOffset_DocumentWidget_(v) ==
    [v EXCEPT !.invalidRuns =
        InsertAll(@, [i \in 1..Len(WideNonzero(v)) |-> PreRun(WideNonzero(v)[i])])]

(* resetWideRuns_DocumentWidget_                                            *)
resetWideRuns_DocumentWidget_(v) ==
    [v EXCEPT !.wideRunOffsets = <<>>, !.animWideRunId = 0,
              !.animWideRunOffset = init_Anim(0), !.animWideRunRange = "null"]

(* draw_DocumentWidget_: every invalid run is redrawn, then the set is      *)
(* cleared.                                                                 *)
draw_DocumentWidget_(v) == [v EXCEPT !.redrawn = v.invalidRuns, !.invalidRuns = <<>>]

InvalInit ==
    /\ InitOthers
    /\ \E runLink \in [LinkRuns -> LinkIds], vis \in SUBSET LinkRuns,
          offsets \in [1..NumPre -> {0, 3 * lineHeight}] :
          view = [InitView EXCEPT !.runLink = runLink,
                                  !.visibleLinks = Ascending(vis),
                                  !.pre = [b \in 1..NumPre |-> colWidth * MaxPre],
                                  !.visibleWideRuns = 1..NumPre,
                                  !.wideRunOffsets = offsets]

(* An invalidation; the widget notes which ones it made since the last     *)
(* draw and whether this one is a repetition. redrawn is what the last      *)
(* step drew.                                                               *)
Invalidate(v, op, arg) ==
    ViewStep([v EXCEPT !.done = @ \cup {<<op, arg>>}, !.arg = arg,
                       !.again = <<op, arg>> \in v.done, !.redrawn = <<>>], op)

(* updateHover_DocumentWidget_: the pointer enters or leaves a link.         *)
InvalidateLink ==
    \E id \in LinkIds :
        Invalidate(invalidateLink_DocumentWidget_(view, id), "invalidateLink", id)

(* The link numbers are switched on or off.                                 *)
InvalidateVisibleLinks ==
    Invalidate(invalidateVisibleLinks_DocumentWidget_(view), "invalidateVisibleLinks", 0)

(* A text is found or a selection begins: markers do not support offsets.   *)
InvalidateWideRuns ==
    Invalidate(resetWideRuns_DocumentWidget_(
                   invalidateWideRunsWithNonzeroOffset_DocumentWidget_(view)),
               "invalidateWideRuns", 0)

Draw ==
    ViewStep([draw_DocumentWidget_(view) EXCEPT !.done = {}, !.again = FALSE], "draw")

InvalNext ==
    \/ InvalidateLink
    \/ InvalidateVisibleLinks
    \/ InvalidateWideRuns
    \/ Draw

InvalSpec == InvalInit /\ [][InvalNext]_vars


(* ---------------------------------------------------------------------- *)
(* Selection: a range of the source is selected by dragging, drawn and      *)
(* copied.                                                                  *)
(* ---------------------------------------------------------------------- *)

(* Source positions are pointers into the source text, 0 is NULL. Text run  *)
(* i holds the RunLen characters from RunStart(i); every character is one   *)
(* unit wide.                                                               *)
RunStart(i) == 1 + (i - 1) * RunLen

RunEnd(i) == RunStart(i) + RunLen

SourceLocs == RunStart(1)..(RunEnd(NumTextRuns) - 1)

(* The runs render_GmDocument visits for the visible range: two runs from   *)
(* the first visible one.                                                   *)
VisibleRuns(v) == v.firstVisibleRun..Min(v.firstVisibleRun + 1, NumTextRuns)

iNullRange == [start |-> 0, end |-> 0]

isEmpty_Range(r) == r.start = r.end

(* contains_Range of a run's text                                           *)
ContainsLoc(run, loc) == RunStart(run) <= loc /\ loc < RunEnd(run)

(* fillRange_DrawContext_ for one run: <<the rectangles filled, isInside>>. *)
(* A rectangle is <<run, x, width>>.                                        *)
fillRange_DrawContext_(run, markIn, isInside) ==
    LET mark == IF markIn.start > markIn.end
                THEN [start |-> markIn.end, end |-> markIn.start]
                ELSE markIn
    IN  IF (~isInside /\ (ContainsLoc(run, mark.start) \/ mark.start = RunEnd(run)))
             \/ isInside
        THEN LET x == IF ~isInside THEN mark.start - RunStart(run) ELSE 0
                 ends == ContainsLoc(run, mark.end) \/ RunEnd(run) = mark.end
                 w0 == IF ends
                       THEN IF ~isInside THEN mark.end - mark.start
                            ELSE mark.end - RunStart(run)
                       ELSE RunLen - x
                 w == IF w0 > RunLen - x THEN RunLen - x ELSE w0
             IN  <<<< <<run, x, w>> >>, ~ends>>
        ELSE <<<<>>, isInside>>

(* render_GmDocument with drawMark_DrawContext_ over the visible runs.      *)
RECURSIVE DrawMarks(_, _, _, _)
DrawMarks(run, lastRun, mark, isInside) ==
    IF run > lastRun THEN <<>>
    ELSE LET r == fillRange_DrawContext_(run, mark, isInside)
         IN  r[1] \o DrawMarks(run + 1, lastRun, mark, r[2])

(* draw_DocumentWidget_, the text markers: the rectangles of the selection. *)
TextMarkers(v) ==
    IF isEmpty_Range(v.selectMark) THEN <<>>
    ELSE LET inSelectMark ==
                 /\ v.firstVisibleRun # 0
                 /\ ~isEmpty_Range(v.selectMark)
                 /\ v.selectMark.start < RunStart(v.firstVisibleRun)
                 /\ v.selectMark.end > RunStart(v.firstVisibleRun)
         IN  DrawMarks(v.firstVisibleRun, Min(v.firstVisibleRun + 1, NumTextRuns),
                       v.selectMark, inSelectMark)

(* "copy": the range put on the clipboard; the whole source without a       *)
(* selection.                                                               *)
CopiedRange(v) ==
    IF v.selectMark.start # 0
    THEN IF v.selectMark.start > v.selectMark.end
         THEN [start |-> v.selectMark.end, end |-> v.selectMark.start]
         ELSE v.selectMark
    ELSE [start |-> RunStart(1), end |-> RunEnd(NumTextRuns)]

SelectInit ==
    /\ InitOthers
    /\ view = [InitView EXCEPT !.firstVisibleRun = 1]

(* sourceLoc_DocumentWidget_: the pointer is on a character of a visible    *)
(* run or on none (NULL).                                                   *)
PointerLocs == {0} \cup {l \in SourceLocs : \E run \in VisibleRuns(view) : ContainsLoc(run, l)}

(* A drag begins.                                                           *)
BeginSelect ==
    \E loc \in PointerLocs :
        ViewStep([view EXCEPT !.selectMark = [start |-> loc, end |-> loc]], "select.begin")

(* The drag goes on.                                                        *)
DragSelect ==
    \E loc \in PointerLocs :
        ViewStep([view EXCEPT !.selectMark =
                     IF @.start = 0 THEN [start |-> loc, end |-> loc]
                     ELSE IF loc # 0 THEN [@ EXCEPT !.end = loc] ELSE @],
                 "select.drag")

(* The document is scrolled; updateVisible_DocumentWidget_ finds the first  *)
(* visible run.                                                             *)
ScrollSelection ==
    \E run \in 1..NumTextRuns :
        /\ run # view.firstVisibleRun
        /\ ViewStep([view EXCEPT !.firstVisibleRun = run], "scroll")

HandleCopy == ViewStep([view EXCEPT !.copied = CopiedRange(view)], "copy")

DrawSelection == ViewStep([view EXCEPT !.marked = TextMarkers(view)], "draw")

SelectNext ==
    \/ BeginSelect
    \/ DragSelect
    \/ ScrollSelection
    \/ HandleCopy
    \/ DrawSelection

SelectSpec == SelectInit /\ [][SelectNext]_vars

(* ---------------------------------------------------------------------- *)
(* Link numbers                                                             *)
(* ---------------------------------------------------------------------- *)

(* iInvalidPos is (size_t) -1. A size_t is kept as its residue modulo the   *)
(* word size, the upper half of the range written as negative numbers, so   *)
(* that sums and differences wrap as they do in the code.                   *)
iInvalidPos == -1

(* a < b for two size_t.                                                    *)
LessSize(a, b) ==
    IF a >= 0 THEN b < 0 \/ a < b ELSE b < 0 /\ a < b

(* A run is a link's icon: decoration_GmRunFlag and linkId.                 *)
IsMarker(v, run) == v.doc[run] = "marker" /\ LinkOf(v, run) # 0

(* lastVisibleLink_DocumentWidget_: 0 when there is none.                   *)
lastVisibleLink_DocumentWidget_(v) ==
    LET marks == SelectSeq(v.visibleLinks, LAMBDA run : IsMarker(v, run))
    IN  IF marks = <<>> THEN 0 ELSE marks[Len(marks)]

(* The icons of all visible links.                                          *)
OrdinalRuns_All(v) == SelectSeq(v.visibleLinks, LAMBDA run : IsMarker(v, run))

(* The icons of the visible links that are not scrolled out at the top.     *)
OrdinalRuns(v) ==
    LET visRange == visibleRange_DocumentWidget_(v)
    IN  SelectSeq(v.visibleLinks,
                  LAMBDA run :
                     /\ RunTop(v.doc, v.width, run)
                            >= visRange.start + (gap_UI * pageMargin * 4) \div 5
                     /\ IsMarker(v, run))

(* visibleLinkOrdinal_DocumentWidget_, its loop over the icons: the number *)
(* of icons before the first one of the link.                               *)
OrdinalIn(v, runs, linkId) ==
    LET hits == {k \in 1..Len(runs) : LinkOf(v, runs[k]) = linkId}
    IN  IF hits = {} THEN iInvalidPos
        ELSE (CHOOSE k \in hits : \A j \in hits : k <= j) - 1

(* visibleLinkOrdinal_DocumentWidget_                                       *)
visibleLinkOrdinal_DocumentWidget_(v, linkId) == OrdinalIn(v, OrdinalRuns(v), linkId)

(* Key codes.                                                               *)
Key1 == 49
Key9 == 57
KeyA == 97
KeyZ == 122

(* homeRowKeys_: sorted by proximity to F and J.                            *)
homeRowKeys_ ==
    <<102, 100, 115, 97,  106, 107, 108,  114, 101, 119, 113,
      117, 105, 111, 112,  118, 99, 120, 122,  109, 110,  103, 104,  98,
      116, 121>>

(* The keys the Apple build leaves to the system: h, m, q, w.               *)
AppleKeys == <<104, 109, 113, 119>>

Count(seq, test(_)) == Len(SelectSeq(seq, test))

(* linkOrdinalFromKey_DocumentWidget_ that gives every letter its place in  *)
(* the alphabet.                                                            *)
linkOrdinalFromKey_Alphabet(v, key) ==
    IF key >= Key1 /\ key <= Key9 THEN key - Key1
    ELSE IF key < KeyA \/ key > KeyZ THEN iInvalidPos
    ELSE key - KeyA + 9

(* linkOrdinalFromKey_DocumentWidget_                                       *)
linkOrdinalFromKey_DocumentWidget_(v, key) ==
    IF v.ordinalMode = "numbersAndAlphabet"
    THEN IF key >= Key1 /\ key <= Key9 THEN key - Key1
         ELSE IF key < KeyA \/ key > KeyZ THEN iInvalidPos
         ELSE IF v.apple
         THEN IF Count(AppleKeys, LAMBDA k : k = key) # 0 THEN iInvalidPos
              ELSE key - KeyA + 9 - Count(AppleKeys, LAMBDA k : key > k)
         ELSE key - KeyA + 9
    ELSE LET hits == {i \in 1..Len(homeRowKeys_) : homeRowKeys_[i] = key}
         IN  IF hits = {} THEN iInvalidPos
             ELSE (CHOOSE i \in hits : \A j \in hits : i <= j) - 1

(* The code points of the labels: the circled digit one, the circled A.     *)
CircledOne == 10122
CircledA == 9398

(* The key of an ordinal on the Apple build: each of the four keys left     *)
(* out moves the keys from it on by one.                                    *)
RECURSIVE SkipKeys(_, _)
SkipKeys(key, skipped) ==
    IF skipped = <<>> THEN key
    ELSE SkipKeys(IF key >= Head(skipped) THEN key + 1 ELSE key, Tail(skipped))

(* linkOrdinalChar_DocumentWidget_: 0 when the ordinal has no label.        *)
linkOrdinalChar_DocumentWidget_(v, ord) ==
    IF v.ordinalMode = "numbersAndAlphabet"
    THEN IF LessSize(ord, 9) THEN CircledOne + ord
         ELSE IF v.apple
         THEN IF LessSize(ord, 9 + 22)
              THEN CircledA + SkipKeys(KeyA + ord - 9, AppleKeys) - KeyA
              ELSE 0
         ELSE IF LessSize(ord, 9 + 26) THEN CircledA + ord - 9 ELSE 0
    ELSE IF LessSize(ord, Len(homeRowKeys_))
         THEN CircledA + homeRowKeys_[ord + 1] - KeyA
         ELSE 0

(* drawRun_DrawContext_: the label drawn in place of a link's icon, 0 when  *)
(* the icon itself is drawn.                                                *)
OrdinalLabel(v, run) ==
    IF v.showLinkNumbers /\ IsMarker(v, run)
    THEN LET ord == visibleLinkOrdinal_DocumentWidget_(v, LinkOf(v, run))
         IN  IF ~LessSize(ord, v.ordinalBase)
             THEN linkOrdinalChar_DocumentWidget_(v, ord - v.ordinalBase)
             ELSE 0
    ELSE 0

(* "document.linkkeys arg:mode": the link numbers are switched on.          *)
LinkKeysOn(v, mode, hover) ==
    [v EXCEPT !.ordinalMode = mode, !.ordinalBase = 0,
              !.showLinkNumbers = TRUE, !.setHoverViaKeys = hover]

(* "document.linkkeys release:1"                                            *)
LinkKeysRelease(v) == [v EXCEPT !.showLinkNumbers = FALSE]

(* "document.linkkeys more:1"                                               *)
LinkKeysMore(v) ==
    IF v.showLinkNumbers /\ v.ordinalMode = "homeRow"
    THEN LET last_ == lastVisibleLink_DocumentWidget_(v)
             base == v.ordinalBase + Len(homeRowKeys_)
         IN  IF last_ = 0 THEN [v EXCEPT !.ordinalBase = 0]
             ELSE IF LessSize(visibleLinkOrdinal_DocumentWidget_(v, LinkOf(v, last_)),
                              base)
             THEN [v EXCEPT !.ordinalBase = 0]
             ELSE [v EXCEPT !.ordinalBase = base]
    ELSE IF ~v.showLinkNumbers
    THEN [v EXCEPT !.ordinalMode = "homeRow", !.ordinalBase = 0,
                   !.showLinkNumbers = TRUE]
    ELSE v

(* processEvent_DocumentWidget_, SDL_KEYDOWN, with an ordinal given by the  *)
(* key: the first visible icon with that ordinal is activated.              *)
ActivateOrdinal(v, ord) ==
    LET icons == OrdinalRuns(v)
        runs == SelectSeq(v.visibleLinks,
                    LAMBDA run :
                       /\ v.doc[run] = "marker"
                       /\ OrdinalIn(v, icons, LinkOf(v, run)) = ord)
    IN  IF ord = iInvalidPos \/ runs = <<>> THEN v
        ELSE LET v1 == IF v.setHoverViaKeys THEN [v EXCEPT !.hoverLink = runs[1]]
                       ELSE [v EXCEPT !.opened = LinkOf(v, runs[1])]
             IN  invalidateVisibleLinks_DocumentWidget_(
                     [v1 EXCEPT !.showLinkNumbers = FALSE])

(* processEvent_DocumentWidget_, SDL_KEYDOWN                                *)
KeyDown(v, key) ==
    LET v0 == [v EXCEPT !.opened = 0, !.key = key]
    IN  IF v.showLinkNumbers
           /\ ((key >= Key1 /\ key <= Key9) \/ (key >= KeyA /\ key <= KeyZ))
        THEN ActivateOrdinal(v0, linkOrdinalFromKey_DocumentWidget_(v, key)
                                     + v.ordinalBase)
        ELSE v0

(* Ordinal runs: a page of text lines and links is scrolled up and down    *)
(* and its preformatted block sideways while the link numbers are shown.    *)
LinkLine == <<"marker", "text">>

LinkDocs == {Concat(ls) : ls \in UNION {[1..n -> {<<"text">>, LinkLine}] :
                                            n \in 1..MaxLines}}

(* Link ids number the links in document order (gmdocument.c); the icon    *)
(* and the text of a link carry its id.                                     *)
RunLinks(doc) ==
    [i \in 1..Len(doc) |->
        LET icons == Len(SelectSeq(SubSeq(doc, 1, i), LAMBDA k : k = "marker"))
        IN  IF doc[i] = "marker" \/ (i > 1 /\ doc[i - 1] = "marker")
            THEN icons ELSE 0]

OrdinalInit ==
    /\ InitOthers
    /\ \E doc \in LinkDocs :
          view = updateVisible_DocumentWidget_(
                     LinkKeysOn([InitView EXCEPT
                                    !.doc = doc, !.runLink = RunLinks(doc),
                                    !.width = 2,
                                    !.pre = <<colWidth * MaxPre>>,
                                    !.visibleWideRuns = {1}],
                                "numbersAndAlphabet", FALSE))

(* A horizontal wheel event with the pointer on the block.                  *)
ScrollWideBlockNow ==
    \E delta \in {-3 * lineHeight, 3 * lineHeight} :
        ViewStep(scrollWideBlock_DocumentWidget_(
                     [view EXCEPT !.mouse = 1], 1, delta, 0, 0),
                 "scrollWideBlock")

OrdinalNext ==
    \/ SmoothScroll
    \/ HandleScrollTop
    \/ HandleScrollBottom
    \/ ScrollWideBlockNow
    \/ Frame

OrdinalSpec == OrdinalInit /\ [][OrdinalNext]_vars

(* Key runs: a page of links, all in view; the link numbers are switched    *)
(* on and off, paged, and keys are pressed.                                 *)
KeyDoc(n) == [i \in 1..2 * n |-> LinkLine[2 - (i % 2)]]

(* The numbers of links: none, a few, more than a page of ordinals.         *)
KeyLinkCounts == {0, 2, MaxKeyLinks}

Keys == {Key1 - 1, Key1, Key9, Key9 + 1, KeyA - 1, KeyZ + 1} \cup KeyA..KeyZ

KeyInit ==
    /\ InitOthers
    /\ \E n \in KeyLinkCounts, apple \in BOOLEAN :
          view = updateVisible_DocumentWidget_(
                     [InitView EXCEPT
                         !.doc = KeyDoc(n), !.runLink = RunLinks(KeyDoc(n)),
                         !.width = 2, !.apple = apple,
                         !.height = 2 * pageMargin * gap_UI + lineHeight * MaxKeyLinks])

HandleLinkKeys ==
    \/ \E mode \in {"numbersAndAlphabet", "homeRow"}, hover \in BOOLEAN :
          ViewStep(LinkKeysOn(view, mode, hover), "document.linkkeys")
    \/ ViewStep(LinkKeysRelease(view), "document.linkkeys")
    \/ ViewStep(LinkKeysMore(view), "document.linkkeys")

(* A key of each kind: a digit, the first letter of the home row list, a   *)
(* letter the Apple build leaves out.                                       *)
SomeKeys == {Key1, 102, 104}

HandleKeyDown ==
    \E key \in SomeKeys : ViewStep(KeyDown(view, key), "keydown")

KeyNext ==
    \/ HandleLinkKeys
    \/ HandleKeyDown

KeySpec == KeyInit /\ [][KeyNext]_vars

(* Label runs: on either build, in either mode, keys are pressed and the    *)
(* ordinal of the key and the label of that ordinal are noted.              *)
LabelInit ==
    /\ InitOthers
    /\ \E apple \in BOOLEAN : view = [InitView EXCEPT !.apple = apple]

PressKey ==
    \E key \in Keys :
        LET ord == linkOrdinalFromKey_DocumentWidget_(view, key)
        IN  ViewStep([KeyDown(view, key) EXCEPT
                         !.keyOrd = ord,
                         !.keyChar = linkOrdinalChar_DocumentWidget_(view, ord)],
                     "keydown")

LabelNext ==
    \/ HandleLinkKeys
    \/ PressKey

LabelSpec == LabelInit /\ [][LabelNext]_vars

(* ---------------------------------------------------------------------- *)
(* References into the run list                                             *)
(* ---------------------------------------------------------------------- *)

(* A reference is NULL (or an empty collection), points into the current    *)
(* run list, or into the run list that a layout has replaced. refs.read     *)
(* names the references that the running handler has read through while     *)
(* they pointed into the replaced list.                                     *)
Old(g) == IF g = "current" THEN "previous" ELSE g

(* setSource_GmDocument, setWidth_GmDocument, redoLayout_GmDocument: the    *)
(* runs are laid out anew.                                                  *)
redoLayout_GmDocument(r) ==
    [r EXCEPT !.first = Old(@), !.last = Old(@), !.hover = Old(@),
              !.context = Old(@), !.links = Old(@),
              !.invalid = IF @ = {} THEN {} ELSE {"previous"}]

(* A read through a reference: run->linkId, run->text.start, ...            *)
ReadRef(r, name, g) ==
    IF g = "previous" THEN [r EXCEPT !.read = @ \cup {name}] ELSE r

(* documentRunsInvalidated_DocumentWidget_ that clears nothing.             *)
RunsInvalidated_Kept(r) == r

(* documentRunsInvalidated_DocumentWidget_                                  *)
RunsInvalidated(r) ==
    [r EXCEPT !.hover = "null", !.context = "null",
              !.first = "null", !.last = "null"]

(* invalidate_DocumentWidget_                                               *)
InvalidateAll(r) == [r EXCEPT !.invalid = {}]

(* currentHeading_DocumentWidget_: with a top-level heading in the document *)
(* the first and the last visible run are read.                             *)
currentHeading_DocumentWidget_(r, hasHeading) ==
    IF r.first # "null" /\ hasHeading
    THEN ReadRef(ReadRef(r, "firstVisibleRun", r.first), "lastVisibleRun", r.last)
    ELSE r

(* invalidateLink_DocumentWidget_ over the visible links.                   *)
InvalidateLinkRefs(r) ==
    IF r.links = "null" THEN r
    ELSE [ReadRef(r, "visibleLinks", r.links) EXCEPT !.invalid = @ \cup {r.links}]

(* updateHover_DocumentWidget_: over says that the mouse is on a visible    *)
(* link, same that this run has the address the hover link had.             *)
updateHover_DocumentWidget_(r, over, same) ==
    LET old == r.hover
        r1 == IF r.links = "null" THEN [r EXCEPT !.hover = "null"]
              ELSE [ReadRef(r, "visibleLinks", r.links) EXCEPT
                       !.hover = IF over THEN r.links ELSE "null"]
        changed == IF old = "null" \/ r1.hover = "null" THEN old # r1.hover
                   ELSE ~same
        r2 == IF changed /\ old # "null"
              THEN InvalidateLinkRefs(ReadRef(r1, "hoverLink", old)) ELSE r1
        r3 == IF changed /\ r2.hover # "null"
              THEN InvalidateLinkRefs(ReadRef(r2, "hoverLink", r2.hover)) ELSE r2
    IN  ReadRef(r3, "hoverLink", r3.hover)

(* updateVisible_DocumentWidget_ on the references: hasText and hasLinks    *)
(* say what the visible range holds.                                        *)
UpdateVisibleRefs(r, hasText, hasLinks, hasHeading, over, same) ==
    LET r1 == currentHeading_DocumentWidget_([r EXCEPT !.links = "null"], hasHeading)
        r2 == [r1 EXCEPT !.first = IF hasText THEN "current" ELSE "null",
                         !.last = IF hasText THEN "current" ELSE @,
                         !.links = IF hasLinks THEN "current" ELSE "null"]
    IN  updateHover_DocumentWidget_(
            currentHeading_DocumentWidget_(r2, hasHeading), over, same)

Begin(r) == [r EXCEPT !.read = {}]

(* setSource_DocumentWidget_                                                *)
SetSourceRefs(r, t, l, h, o, s) ==
    InvalidateAll(UpdateVisibleRefs(
        RunsInvalidated(redoLayout_GmDocument(Begin(r))), t, l, h, o, s))

(* updateDocumentWidthRetainingScrollPosition_DocumentWidget_               *)
WidthChangedRefs(r, t, l, h, o, s) ==
    LET r1 == ReadRef(Begin(r), "firstVisibleRun", r.first)
    IN  InvalidateAll(UpdateVisibleRefs(
            RunsInvalidated(redoLayout_GmDocument(r1)), t, l, h, o, s))

(* "media.updated" with new audio data, and the link's progress after it.   *)
MediaUpdatedRefs(r, t, l, h, o, s) ==
    InvalidateLinkRefs(InvalidateAll(UpdateVisibleRefs(
        redoLayout_GmDocument(Begin(r)), t, l, h, o, s)))

(* "media.finished" with an image or audio.                                 *)
MediaFinishedRefs(r, t, l, h, o, s) ==
    InvalidateAll(UpdateVisibleRefs(redoLayout_GmDocument(Begin(r)), t, l, h, o, s))

(* A click on a media link that is shown: the content is dismissed.         *)
ClickDismissRefs(r, t, l, h, o, s) ==
    LET r1 == redoLayout_GmDocument(ReadRef(Begin(r), "hoverLink", r.hover))
        r2 == UpdateVisibleRefs([r1 EXCEPT !.hover = "null"], t, l, h, o, s)
    IN  InvalidateAll(UpdateVisibleRefs(r2, t, l, h, o, s))

(* "server.trustcert"                                                       *)
TrustCertRefs(r) == InvalidateAll(redoLayout_GmDocument(Begin(r)))

(* The right mouse button: the context link is the hover link.              *)
ContextMenuRefs(r) ==
    LET r1 == [Begin(r) EXCEPT !.context = r.hover]
    IN  ReadRef(r1, "contextLink", r1.context)

(* draw_DocumentWidget_: the invalidated runs are drawn, then the URL of    *)
(* the hover link.                                                          *)
DrawRefs(r) ==
    LET r1 == IF "previous" \in r.invalid
              THEN [Begin(r) EXCEPT !.read = {"invalidRuns"}] ELSE Begin(r)
    IN  ReadRef([r1 EXCEPT !.invalid = {}], "hoverLink", r.hover)

RefStep(r, op) == ViewStep([view EXCEPT !.refs = r], op)

RefInit == InitOthers /\ view = InitView

SetSourceStep ==
    \E t, l, h, o, s \in BOOLEAN :
        RefStep(SetSourceRefs(view.refs, t, l, h, o, s), "setSource")

WidthChangedStep ==
    \E t, l, h, o, s \in BOOLEAN :
        RefStep(WidthChangedRefs(view.refs, t, l, h, o, s), "window.resized")

HandleMediaLayout ==
    \E t, l, h, o, s \in BOOLEAN :
        \/ RefStep(MediaUpdatedRefs(view.refs, t, l, h, o, s), "media.updated")
        \/ RefStep(MediaFinishedRefs(view.refs, t, l, h, o, s), "media.finished")

ClickDismiss ==
    /\ view.refs.hover # "null"
    /\ \E t, l, h, o, s \in BOOLEAN :
          RefStep(ClickDismissRefs(view.refs, t, l, h, o, s), "click")

HandleTrustCert == RefStep(TrustCertRefs(view.refs), "server.trustcert")

MouseMotion ==
    \E o, s \in BOOLEAN :
        RefStep(updateHover_DocumentWidget_(Begin(view.refs), o, s), "mousemotion")

ContextMenu == RefStep(ContextMenuRefs(view.refs), "contextmenu")

DrawStep == RefStep(DrawRefs(view.refs), "draw")

RefNext ==
    \/ SetSourceStep
    \/ WidthChangedStep
    \/ HandleMediaLayout
    \/ ClickDismiss
    \/ HandleTrustCert
    \/ MouseMotion
    \/ ContextMenu
    \/ DrawStep

RefSpec == RefInit /\ [][RefNext]_vars



(* ---------------------------------------------------------------------- *)
(* Cache sync: the draw brings the buffers of the visible content up to     *)
(* date.                                                                    *)
(* ---------------------------------------------------------------------- *)

(* The runs of the page lie one below the other; run r covers the rows      *)
(* from its top for its height.                                             *)
SyncRuns == 1..MaxSyncRuns

RECURSIVE SyncRunTop(_, _)
SyncRunTop(heights, r) ==
    IF r = 1 THEN 0 ELSE SyncRunTop(heights, r - 1) + heights[r - 1]

ySpan_Rect(heights, r) ==
    [start |-> SyncRunTop(heights, r), end |-> SyncRunTop(heights, r) + heights[r]]

(* isOverlapping_Rangei                                                     *)
isOverlapping_Rangei(a, b) == a.start < b.end /\ a.end > b.start

(* The buffers lie one below the other from the origin of the first.        *)
Buffers == 1..NumBuffers

bufRange(v, i) ==
    [start |-> v.origin + (i - 1) * TexHeight, end |-> v.origin + i * TexHeight]

(* What the paint does, in order.                                           *)
PaintOp(op, buf, run) == [op |-> op, buf |-> buf, run |-> run]

(* One loop over the set of invalid runs: an operation on each run that     *)
(* overlaps the buffer.                                                     *)
OverlappingRuns(v, i) ==
    SelectSeq(v.invalidRuns,
              LAMBDA run : isOverlapping_Rangei(bufRange(v, i), ySpan_Rect(v.heights, run)))

Pass(v, i, op) ==
    [k \in 1..Len(OverlappingRuns(v, i)) |-> PaintOp(op, i, OverlappingRuns(v, i)[k])]

(* One loop that clears and draws each run in turn.                         *)
SyncBuffer_EachInTurn(v, i) ==
    (IF v.bufValid[i] THEN <<>> ELSE <<PaintOp("render", i, 0)>>)
        \o [k \in 1..(2 * Len(OverlappingRuns(v, i))) |->
               PaintOp(IF k % 2 = 1 THEN "fillRect" ELSE "drawRun", i,
                       OverlappingRuns(v, i)[(k + 1) \div 2])]

(* The body of the loop over the buffers: the invalid range of the buffer   *)
(* is rendered, the backgrounds of the invalid runs are cleared, the        *)
(* invalid runs are drawn.                                                  *)
SyncBuffer(v, i) ==
    (IF v.bufValid[i] THEN <<>> ELSE <<PaintOp("render", i, 0)>>)
        \o Pass(v, i, "fillRect") \o Pass(v, i, "drawRun")

RECURSIVE SyncBuffers(_, _)
SyncBuffers(v, i) ==
    IF i > NumBuffers THEN <<>> ELSE SyncBuffer(v, i) \o SyncBuffers(v, i + 1)

(* draw_DocumentWidget_: nothing is drawn in a widget without width;        *)
(* otherwise the buffers are brought up to date, then validated, then the   *)
(* set of invalid runs is cleared.                                          *)
SyncCache(v) ==
    IF v.width <= 0 THEN [v EXCEPT !.paint = <<>>]
    ELSE [v EXCEPT !.paint = SyncBuffers(v, 1)
                                 \o <<PaintOp("validate", 0, 0),
                                      PaintOp("clear_PtrSet", 0, Len(v.invalidRuns))>>,
                   !.bufValid = [i \in Buffers |-> TRUE],
                   !.invalidRuns = <<>>]

SyncInit ==
    /\ InitOthers
    /\ \E heights \in [SyncRuns -> 1..MaxRunHeight] :
          view = [InitView EXCEPT !.heights = heights,
                                  !.bufValid = [i \in Buffers |-> FALSE]]

(* A run is marked for redrawing.                                           *)
SyncInvalidate ==
    \E run \in SyncRuns :
        ViewStep([view EXCEPT !.invalidRuns = insert_PtrSet(@, run), !.paint = <<>>],
                 "invalidate")

(* The view scrolls: the buffers are repositioned and one that moved has    *)
(* no valid content.                                                        *)
SyncScroll ==
    \E origin \in 0..MaxOrigin, i \in Buffers :
        /\ origin # view.origin
        /\ ViewStep([view EXCEPT !.origin = origin, !.bufValid[i] = FALSE,
                                 !.paint = <<>>], "scroll")

(* The widget gets or loses its width.                                      *)
SyncResize ==
    \E width \in {0, 1} :
        /\ width # view.width
        /\ ViewStep([view EXCEPT !.width = width, !.paint = <<>>], "resize")

SyncDraw == ViewStep(SyncCache(view), "draw.sync")

SyncNext ==
    \/ SyncInvalidate
    \/ SyncScroll
    \/ SyncResize
    \/ SyncDraw

SyncSpec == SyncInit /\ [][SyncNext]_vars


(* ---------------------------------------------------------------------- *)
(* Marks and wide blocks: a text is selected by dragging or found while     *)
(* the preformatted blocks are scrolled sideways.                           *)
(* ---------------------------------------------------------------------- *)

(* started_ClickResult                                                      *)
ClickStarted(v) == [v EXCEPT !.selecting = FALSE]

(* drag_ClickResult: the first drag event of a click begins the selection,  *)
(* every drag event moves the end of the mark to the pointer.               *)
ClickDrag(v, startLoc, loc) ==
    LET v1 == IF ~v.selecting
              THEN [resetWideRuns_DocumentWidget_(
                        invalidateWideRunsWithNonzeroOffset_DocumentWidget_(v))
                       EXCEPT !.selecting = TRUE,
                              !.selectMark = [start |-> startLoc, end |-> startLoc]]
              ELSE v
    IN  [v1 EXCEPT !.selectMark =
            IF @.start = 0 THEN [start |-> loc, end |-> loc]
            ELSE IF loc # 0 THEN [@ EXCEPT !.end = loc] ELSE @]

(* finished_ClickResult: a click that did not move removes the selection.   *)
ClickFinished(v, isMoved) ==
    IF ~isMoved /\ v.selectMark.start # 0 THEN [v EXCEPT !.selectMark = iNullRange]
    ELSE v

(* What findText_GmDocument can return: nothing or the first character of  *)
(* a run.                                                                   *)
Finds ==
    {iNullRange} \cup {[start |-> RunStart(run), end |-> RunStart(run) + 1] :
                          run \in 1..NumTextRuns}

(* "find.next", "find.prev": first is what the search from the mark finds,  *)
(* wrapped what the search from the beginning finds.                        *)
FindNext(v, isEmpty, first, wrapped) ==
    LET wrap == v.foundMark.start # 0
        found == IF isEmpty THEN iNullRange
                 ELSE IF first.start = 0 /\ wrap THEN wrapped ELSE first
    IN  resetWideRuns_DocumentWidget_(
            invalidateWideRunsWithNonzeroOffset_DocumentWidget_(
                [v EXCEPT !.foundMark = found]))

MarkInit ==
    /\ InitOthers
    /\ \E preWidth \in PreWidths :
          LET v == [InitView EXCEPT !.pre = [b \in 1..NumPre |-> preWidth],
                                    !.firstVisibleRun = 1]
          IN  view = [v EXCEPT !.visibleWideRuns = {b \in 1..NumPre : IsWide(v, b)}]

MarkClickStarted == ViewStep(ClickStarted(view), "click.started")

(* sourceLoc_DocumentWidget_: the pointer is on the first character of a    *)
(* visible run or on none (NULL).                                           *)
MarkLocs == {0} \cup {RunStart(run) : run \in VisibleRuns(view)}

MarkClickDrag ==
    \E startLoc \in MarkLocs, loc \in MarkLocs :
        ViewStep(ClickDrag(view, startLoc, loc), "click.drag")

MarkClickFinished ==
    \E isMoved \in BOOLEAN :
        ViewStep(ClickFinished(view, isMoved), "click.finished")

MarkFind ==
    \E isEmpty \in BOOLEAN, first \in Finds, wrapped \in Finds :
        ViewStep(FindNext(view, isEmpty, first, wrapped), "find")

(* A horizontal wheel event of a trackpad with the pointer on block preId.  *)
MarkWheel ==
    \E preId \in 0..NumPre, delta \in {3 * lineHeight, -3 * lineHeight} :
      \E ov \in Outcomes(StoredOffset(view, preId), delta) :
        ViewStep(scrollWideBlock_DocumentWidget_(
                     [view EXCEPT !.mouse = preId], preId, delta, 0, ov),
                 "scrollWideBlock")

MarkNext ==
    \/ MarkClickStarted
    \/ MarkClickDrag
    \/ MarkClickFinished
    \/ MarkFind
    \/ MarkWheel

MarkSpec == MarkInit /\ [][MarkNext]_vars


(* ---------------------------------------------------------------------- *)
(* The animation of a wide block while the document is laid out anew.       *)
(* ---------------------------------------------------------------------- *)

(* checkResponse_DocumentWidget_ with more content of a success response:   *)
(* the first piece resets the wide blocks, every piece sets the source.     *)
StreamedSource(v, isFirst) ==
    LET v1 == IF isFirst THEN resetWideRuns_DocumentWidget_(v) ELSE v
    IN  [v1 EXCEPT !.animWideRunRange = Replaced(@)]

(* "media.updated", "media.finished": the content is merged by              *)
(* redoLayout_GmDocument.                                                   *)
MediaMerged(v) == [v EXCEPT !.animWideRunRange = Replaced(@)]

AnimInit ==
    /\ InitOthers
    /\ \E preWidth \in PreWidths :
          LET v == [InitView EXCEPT !.pre = [b \in 1..NumPre |-> preWidth]]
          IN  view = [v EXCEPT !.visibleWideRuns = {b \in 1..NumPre : IsWide(v, b)}]

(* A horizontal wheel event with the pointer on block preId.                *)
AnimWheel ==
    \E preId \in 0..NumPre, delta \in {3 * lineHeight, -3 * lineHeight},
       duration \in {0, smoothDuration} :
      \E ov \in Outcomes(StoredOffset(view, preId), delta) :
        ViewStep(scrollWideBlock_DocumentWidget_(
                     [view EXCEPT !.mouse = preId], preId, delta, duration, ov),
                 "scrollWideBlock")

(* The ticker runs in the next frame.                                       *)
AnimTick ==
    /\ view.ticker
    /\ ViewStep(refreshWhileScrolling_DocumentWidget_(view), "tick")

(* "window.resized": the window gets another height.                        *)
AnimResized ==
    \E height \in Heights :
        /\ height # view.height
        /\ ViewStep(updateDocumentWidthRetainingScrollPosition_DocumentWidget_(
                        view, view.width, height), "window.resized")

AnimStreamed ==
    \E isFirst \in BOOLEAN :
        ViewStep(StreamedSource(view, isFirst), "document.request.updated")

AnimMedia == ViewStep(MediaMerged(view), "media.updated")

AnimNext ==
    \/ AnimWheel
    \/ AnimTick
    \/ AnimResized
    \/ AnimStreamed
    \/ AnimMedia

AnimSpec == AnimInit /\ [][AnimNext]_vars


(* ---------------------------------------------------------------------- *)
(* Fetches from any state of the widget                                     *)
(* ---------------------------------------------------------------------- *)

RequestStates == {"blank", "fetching", "receivedPartial", "ready"}

(* The widget before a fetch: in any state, with or without a request, with *)
(* or without media requests, certificate flags and link numbers.           *)
FetchInit ==
    /\ \E state \in RequestStates, url \in Urls, request \in {NullReq} \cup Addrs,
          isRequestUpdated \in BOOLEAN, hasMedia \in BOOLEAN, available \in BOOLEAN,
          showLinkNumbers \in BOOLEAN, source \in {EmptySource, BodySource(<<65>>)} :
          /\ d = [InitWidget EXCEPT
                     !.state = state, !.url = url, !.request = request,
                     !.isRequestUpdated = isRequestUpdated,
                     !.media = IF hasMedia THEN <<new_MediaRequest(1, 1)>> ELSE <<>>,
                     !.certFlags = IF available THEN {"available"} ELSE {},
                     !.showLinkNumbers = showLinkNumbers,
                     !.doc.source = source]
          /\ heap = [a \in Addrs |-> IF a = request THEN NewObject ELSE DeadObject]
    /\ queue = <<>>
    /\ pc = "idle"
    /\ nuser = 0
    /\ emitted = <<>>
    /\ last = [op |-> "init", hit |-> FALSE, state0 |-> "blank", req0 |-> FALSE,
             locks |-> <<>>]
    /\ view = InitView

FetchStep ==
    /\ \E a \in FreeAddrs : Commit(fetch_DocumentWidget_(NetWorld, a), "fetch", TRUE)
    /\ UNCHANGED <<pc, nuser>>

FetchNext == FetchStep

FetchSpec == FetchInit /\ [][FetchNext]_vars


(* ---------------------------------------------------------------------- *)
(* Paging the link numbers                                                  *)
(* ---------------------------------------------------------------------- *)

(* Paging runs: a page of links that are all in view, or a short page that  *)
(* scrolls; the link numbers are switched on and off and paged, and the     *)
(* page is scrolled.                                                        *)
MoreInit ==
    /\ InitOthers
    /\ \/ \E n \in KeyLinkCounts :
             view = updateVisible_DocumentWidget_(
                        [InitView EXCEPT
                            !.doc = KeyDoc(n), !.runLink = RunLinks(KeyDoc(n)),
                            !.width = 2,
                            !.height = 2 * pageMargin * gap_UI
                                          + lineHeight * MaxKeyLinks])
       \/ \E doc \in LinkDocs :
             view = updateVisible_DocumentWidget_(
                        [InitView EXCEPT
                            !.doc = doc, !.runLink = RunLinks(doc), !.width = 2])

(* "document.linkkeys arg:mode"                                             *)
MoreKeysOn ==
    \E mode \in {"numbersAndAlphabet", "homeRow"} :
        ViewStep(LinkKeysOn(view, mode, FALSE), "document.linkkeys arg")

(* "document.linkkeys release:1"                                            *)
MoreKeysRelease == ViewStep(LinkKeysRelease(view), "document.linkkeys release")

(* "document.linkkeys more:1"                                               *)
MoreKeysMore ==
    /\ view.ordinalBase < MaxPages * Len(homeRowKeys_)
    /\ ViewStep(LinkKeysMore(view), "document.linkkeys more")

(* A scroll that takes effect at once.                                      *)
MoreScroll ==
    \E offset \in Offsets :
      \E ov \in Outcomes(targetValue_Anim(view.scrollY), offset) :
        ViewStep(smoothScroll_DocumentWidget_(view, offset, 0, ov), "scroll")

MoreNext ==
    \/ MoreKeysOn
    \/ MoreKeysRelease
    \/ MoreKeysMore
    \/ MoreScroll

MoreSpec == MoreInit /\ [][MoreNext]_vars


(* ---------------------------------------------------------------------- *)
(* The media timer                                                          *)
(* ---------------------------------------------------------------------- *)

(* Timer runs: a page of text, audio players, downloads and images; the    *)
(* page is scrolled, the players are used, the tab is switched, and the    *)
(* timer ticks.                                                             *)
MediaTypes == {"audio", "download", "image"}

TimerDocs == [1..MaxTimerRuns -> RunKinds]

StoppedPlayer ==
    [started |-> FALSE, paused |-> FALSE, adjustingVolume |-> FALSE,
     volumeGrabbed |-> FALSE]

TimerInit ==
    /\ InitOthers
    /\ \E doc \in TimerDocs :
         \E types \in [{i \in 1..Len(doc) : doc[i] = "media"} -> MediaTypes] :
           view = updateVisible_DocumentWidget_(
                      [InitView EXCEPT
                          !.doc = doc,
                          !.runMedia = [i \in 1..Len(doc) |->
                                           IF i \in DOMAIN types /\ types[i] # "image"
                                           THEN types[i] ELSE "none"],
                          !.players = [i \in 1..Len(doc) |-> StoppedPlayer]])

(* The handler begins: SDL has not been called yet.                         *)
Began(v) == [v EXCEPT !.sdlCall = "none"]

(* The audio players in view.                                               *)
VisiblePlayers(v) ==
    {v.visibleMedia[i] : i \in 1..Len(v.visibleMedia)}
        \cap {run \in 1..Len(v.doc) : MediaTypeOf(v, run) = "audio"}

NoneGrabbed(v) == \A run \in 1..Len(v.doc) : ~v.players[run].volumeGrabbed

(* processMediaEvents_DocumentWidget_, a click on the play button.          *)
PlayPause(v, run) ==
    animateMedia_DocumentWidget_(
        [v EXCEPT !.players[run].paused = ~@])

(* processMediaEvents_DocumentWidget_, a click on the volume button.        *)
VolumeButton(v, run) ==
    animateMedia_DocumentWidget_(
        [v EXCEPT !.players[run].adjustingVolume = ~@])

(* processMediaEvents_DocumentWidget_, a click on the rewind button.        *)
Rewind(v, run) ==
    IF v.players[run].started THEN [v EXCEPT !.players[run].paused = TRUE] ELSE v

(* "tabs.changed": the widget's tab became the current one, or another did. *)
TabsChanged(v, own) ==
    LET v1 == [v EXCEPT !.current = own, !.showLinkNumbers = FALSE]
        v2 == IF own
              THEN updateVisible_DocumentWidget_(resetWideRuns_DocumentWidget_(v1))
              ELSE v1
    IN  animateMedia_DocumentWidget_(v2)

TimerScroll ==
    \E offset \in {-4 * lineHeight, 4 * lineHeight} :
        ViewStep(smoothScroll_DocumentWidget_(Began(view), offset, 0, 0), "scroll")

TimerPlayPause ==
    \E run \in VisiblePlayers(view) :
        /\ NoneGrabbed(view)
        /\ ViewStep(PlayPause(Began(view), run), "click")

TimerVolume ==
    \E run \in VisiblePlayers(view) :
        /\ NoneGrabbed(view)
        /\ ViewStep(VolumeButton(Began(view), run), "click")

TimerRewind ==
    \E run \in VisiblePlayers(view) :
        /\ NoneGrabbed(view)
        /\ ViewStep(Rewind(Began(view), run), "click")

(* The volume slider of a player is grabbed and let go.                     *)
TimerGrab ==
    \E run \in VisiblePlayers(view) :
        /\ view.players[run].adjustingVolume
        /\ NoneGrabbed(view) \/ view.players[run].volumeGrabbed
        /\ ViewStep([Began(view) EXCEPT !.players[run].volumeGrabbed = ~@], "drag")

(* The media begins to play an audio stream, or the stream ends.            *)
TimerPlayer ==
    \E run \in {r \in 1..Len(view.doc) : MediaTypeOf(view, r) = "audio"} :
        ViewStep([Began(view) EXCEPT !.players[run].started = ~@,
                                     !.players[run].paused = FALSE], "player")

TimerTabsChanged ==
    \E own \in BOOLEAN : ViewStep(TabsChanged(Began(view), own), "tabs.changed")

(* "media.player.update", posted by the timer of any document.              *)
TimerTick ==
    \E idle \in SUBSET VisiblePlayers(view) :
        ViewStep(updateMedia_DocumentWidget_(Began(view), idle), "media.player.update")

TimerNext ==
    \/ TimerScroll
    \/ TimerPlayPause
    \/ TimerVolume
    \/ TimerRewind
    \/ TimerGrab
    \/ TimerPlayer
    \/ TimerTabsChanged
    \/ TimerTick

TimerSpec == TimerInit /\ [][TimerNext]_vars


(* ---------------------------------------------------------------------- *)
(* Auto-reload                                                              *)
(* ---------------------------------------------------------------------- *)

max_ReloadInterval == 8

(* seconds_ReloadInterval_                                                  *)
seconds_ReloadInterval_(interval) ==
    LET times == <<0, 1, 5, 15, 60, 4 * 60, 12 * 60, 24 * 60>>
    IN  IF interval < 0 \/ interval >= max_ReloadInterval THEN 0
        ELSE times[interval + 1]

(* "document.autoreload"; elapsed is elapsedSeconds_Time(&d->sourceTime).   *)
Autoreload(v, elapsed) ==
    [v EXCEPT !.elapsed = elapsed,
              !.reloadPosted =
                  /\ v.mod.reloadInterval # 0
                  /\ \/ ~v.sourceValid
                     \/ elapsed >= seconds_ReloadInterval_(v.mod.reloadInterval)]

(* Seconds since the content was received, around each interval.            *)
ElapsedSamples ==
    {0, 1, 4, 5, 15, 59, 60, 299, 300, 900, 3600, 14400, 43200, 86400}

(* Auto-reload runs: a page that has its content received or not, the       *)
(* interval is chosen from the menu, and the app posts the reload tick.     *)
ReloadInit ==
    /\ InitOthers
    /\ \E valid \in BOOLEAN : view = [InitView EXCEPT !.sourceValid = valid]

ReloadSet ==
    \E arg \in 0..(max_ReloadInterval - 1) :
        ViewStep([view EXCEPT !.mod.reloadInterval = arg], "document.autoreload.set")

ReloadTick ==
    \E elapsed \in ElapsedSamples :
        ViewStep(Autoreload(view, elapsed), "document.autoreload")

ReloadNext ==
    \/ ReloadSet
    \/ ReloadTick

ReloadSpec == ReloadInit /\ [][ReloadNext]_vars


(* ---------------------------------------------------------------------- *)
(* Properties                                                               *)
(* ---------------------------------------------------------------------- *)

(* The step handles the finished notification of the request the widget    *)
(* owns, after its transport has completed with a success status.           *)
FinishesSuccess ==
    /\ Handling("document.request.finished")
    /\ last'.op = "document.request.finished"
    /\ d.request # NullReq
    /\ Head(queue).req = d.request
    /\ heap[d.request].finished
    /\ category_GmStatusCode(heap[d.request].status) = "success"

IsTextGemini(meta) ==
    meta # <<>> /\ meta[1] = MimeParam("text", "gemini")

(* What C1 promises of the state after the notification.                    *)
LoadedWholeBody ==
    /\ d'.state = "ready"
    /\ d'.doc.source = BodySource(heap[d.request].body)
    /\ d'.sourceContent = heap[d.request].body
    /\ d'.request = NullReq
    /\ ~heap'[d.request].alive
    /\ d'.media = d.media

Dispatches ==
    /\ pc = "idle" /\ queue # <<>>
    /\ last'.op \in {"document.request.updated", "document.request.finished"}
    /\ last'.hit
    /\ d.request # NullReq
    /\ d.state = "fetching"
    /\ heap[d.request].status # NoneStatus

(* ... of a redirect with a target, to the same or to another scheme.       *)
DispatchesRedirect(sameScheme) ==
    /\ Dispatches
    /\ category_GmStatusCode(heap[d.request].status) = "redirect"
    /\ heap[d.request].target # EmptyStr
    /\ sameScheme <=>
          (urlScheme_String(absoluteUrl_String(d.url, heap[d.request].target))
             = urlScheme_String(d.url))

RedirectTarget == absoluteUrl_String(d.url, heap[d.request].target)

(* The handler posted an "open" of the target with the given count.         *)
PostsOpen(count) ==
    /\ emitted' = <<"open">>
    /\ queue' = Append(Tail(queue),
                       [Cmd("open") EXCEPT !.redirect = count, !.url = RedirectTarget])

(* The handler posted nothing and shows the error page with the target as   *)
(* a link.                                                                  *)
StopsWithError(err) ==
    /\ "open" \notin {emitted'[i] : i \in 1..Len(emitted')}
    /\ queue' = Tail(queue)
    /\ d'.doc.source = ErrorSource(err, RedirectTarget)
    /\ d'.state = "ready"

(* C2: a same-scheme redirect with a target is followed, with the counter   *)
(* incremented, while the counter is below 5; at 5 nothing is fetched and   *)
(* the too-many-redirects page is shown in state ready. The counter of the  *)
(* widget and of every queued "open" therefore never exceeds 5.            *)
C2_RedirectLimit ==
    [][/\ DispatchesRedirect(TRUE) =>
            IF d.redirectCount < MaxRedirects
            THEN PostsOpen(d.redirectCount + 1) /\ d'.doc.source.kind # "error"
            ELSE StopsWithError("tooManyRedirects")
       /\ d'.redirectCount <= MaxRedirects
       /\ \A i \in 1..Len(queue') : queue'[i].redirect <= MaxRedirects]_vars

(* The sixth redirect of a chain has ended it.                              *)
C2_Witness ==
    /\ last.op = "document.request.updated" /\ last.hit
    /\ d.redirectCount = MaxRedirects
    /\ d.doc.source.err = "tooManyRedirects"
    /\ d.url[1] = d.doc.source.link[1]
    /\ d.state = "ready"
    /\ queue = <<>>

(* C3 as stated: a redirect to another scheme is never followed, whatever   *)
(* the counter: nothing is posted, the scheme-change page with the target   *)
(* as a link is shown and the state is ready.                               *)
C3_AsStated ==
    [][DispatchesRedirect(FALSE) => StopsWithError("schemeChangeRedirect")]_vars

(* C3, amended: a redirect to another scheme is never followed, whatever    *)
(* the counter: nothing is posted, an error page with the target as a link  *)
(* is shown and the state is ready; the page is the scheme-change page      *)
(* while the counter is below 5 and the too-many-redirects page once it     *)
(* is 5.                                                                    *)
C3_SchemeChangeStops ==
    [][DispatchesRedirect(FALSE) =>
          StopsWithError(IF d.redirectCount < MaxRedirects
                         THEN "schemeChangeRedirect"
                         ELSE "tooManyRedirects")]_vars

(* A followed redirect was answered by a redirect to another scheme.        *)
C3_Witness ==
    /\ last.op = "document.request.updated" /\ last.hit
    /\ d.redirectCount > 0
    /\ d.doc.source.err = "schemeChangeRedirect"
    /\ d.doc.source.link[1] # d.url[1]
    /\ d.state = "ready"
    /\ d.request = NullReq

MediaOf(dw, linkId) == {i \in 1..Len(dw.media) : dw.media[i].linkId = linkId}

(* C4: the media list never holds two requests of one link, and in every    *)
(* reachable state a request for media of a link that has one returns       *)
(* false and changes nothing, while one for a link that has none returns    *)
(* true and registers exactly one request, for that link.                   *)
C4_OnePerLink ==
    /\ \A l \in LinkIds : Cardinality(MediaOf(d, l)) <= 1
    /\ \A l \in LinkIds, a \in MediaAllocChoices :
          LET r == requestMedia_DocumentWidget_(NetWorld, l, a)
          IN  IF MediaOf(d, l) # {}
              THEN r = <<FALSE, NetWorld>>
              ELSE /\ r[1]
                   /\ Len(r[2].d.media) = Len(d.media) + 1
                   /\ SubSeq(r[2].d.media, 1, Len(d.media)) = d.media
                   /\ Cardinality(MediaOf(r[2].d, l)) = 1
                   /\ [r[2] EXCEPT !.d.media = d.media] = NetWorld

(* A click on a link whose finished download is registered asked for its    *)
(* media again: nothing was registered, the content is shown.               *)
C4_Witness ==
    /\ last.op = "click" /\ last.hit
    /\ \E i \in 1..Len(d.media) :
          /\ d.media[i].finished
          /\ d.media[i].kind = "other"
          /\ d.doc.media[d.media[i].linkId] = "full"
          /\ MediaOf(d, d.media[i].linkId) = {i}

(* C5: at every point the only primary request object that has not been    *)
(* released is the one the widget points to, so at most one exists: a new   *)
(* fetch releases the prior request before it creates the next.             *)
C5_OneLiveRequest == Live \subseteq {d.request} /\ Cardinality(Live) <= 1

(* A fetch has just replaced a request that was still owned.                *)
C5_Witness ==
    /\ last.op \in {"open", "document.reload"}
    /\ last.req0
    /\ d.request # NullReq
    /\ Live = {d.request}

(* The step handles a finished notification whose label is the pointer of  *)
(* the owned request.                                                       *)
FinishedAccepted ==
    /\ Handling("document.request.finished")
    /\ last'.op = "document.request.finished"
    /\ d.request # NullReq
    /\ Head(queue).req = d.request

LaterNotification(type) ==
    /\ pc = "idle" /\ queue # <<>>
    /\ last'.op = type /\ last'.hit
    /\ d.request # NullReq
    /\ d.state = "receivedPartial"

OwnedCategory == category_GmStatusCode(heap[d.request].status)

(* C7 as stated: the dispatch runs at most once in a fetch, on the first    *)
(* notification that sees a status in state fetching, and leaves the state  *)
(* receivedPartial; a later notification handled in receivedPartial leaves  *)
(* document, state and request unchanged unless the category is success,   *)
(* when state and request are unchanged.                                    *)
C7_AsStated ==
    [][/\ d'.dispatches <= 1
       /\ Dispatches => d'.dispatches = 1 /\ d'.state = "receivedPartial"
       /\ \A t \in {"document.request.updated", "document.request.finished"} :
             LaterNotification(t) =>
                /\ d'.state = d.state /\ d'.request = d.request
                /\ OwnedCategory # "success" => d'.doc = d.doc]_vars

(* C7, amended: the dispatch runs at most once in a fetch, on the first     *)
(* notification that sees a status in state fetching; it leaves the state   *)
(* receivedPartial unless it shows an error page or the notification is     *)
(* the finished one (then ready). A later streamed update handled in        *)
(* receivedPartial leaves state and request unchanged, and the document     *)
(* too unless the category is success; a later finished notification        *)
(* changes the document only when the category is success, and moves to     *)
(* ready and releases the request.                                          *)
C7_DispatchOnce ==
    [][/\ d'.dispatches <= 1
       /\ d'.dispatches > d.dispatches => Dispatches
       /\ Dispatches =>
             /\ d'.dispatches = 1
             /\ d'.state \in {"receivedPartial", "ready"}
             /\ d'.state = "ready" =>
                   \/ last'.op = "document.request.finished"
                   \/ d'.doc.source.kind = "error"
       /\ LaterNotification("document.request.updated") =>
             /\ d'.state = d.state /\ d'.request = d.request
             /\ d'.dispatches = d.dispatches
             /\ OwnedCategory # "success" => d'.doc = d.doc
       /\ LaterNotification("document.request.finished") =>
             /\ d'.state = "ready" /\ d'.request = NullReq
             /\ d'.dispatches = d.dispatches
             /\ OwnedCategory # "success" => d'.doc = d.doc]_vars

(* A streamed update handled after the dispatch has extended the document.  *)
C7_Witness ==
    /\ last.op = "document.request.updated" /\ last.hit
    /\ last.state0 = "receivedPartial"
    /\ d.dispatches = 1
    /\ d.state = "receivedPartial"
    /\ d.doc.source.kind = "body"
    /\ d.doc.source.bytes # <<>>

(* The step handles document.stop.                                          *)
Cancels == Handling("document.stop") /\ last'.op = "document.stop"

CountOf(type, seq) == Cardinality({i \in 1..Len(seq) : seq[i] = type})

(* C8 as stated: document.stop leaves no request owned; if the state was    *)
(* not ready it becomes ready and exactly one navigate.back is emitted; a   *)
(* document.stop right after a document.stop changes nothing and emits      *)
(* nothing.                                                                 *)
C8_AsStated ==
    [][Cancels =>
          /\ d'.request = NullReq /\ Live' = {}
          /\ d.state # "ready" =>
                d'.state = "ready" /\ CountOf("navigate.back", emitted') = 1
          /\ last.op = "document.stop" =>
                d' = d /\ heap' = heap /\ emitted' = <<>>]_vars

(* C8, amended: document.stop with a request owned releases it, and if the  *)
(* state was not ready makes it ready and posts exactly one navigate.back;  *)
(* with no request owned, as after a document.stop until the next fetch,    *)
(* it changes nothing and emits nothing whatever the state is.              *)
C8_CancelReleases ==
    [][/\ Cancels =>
          IF d.request # NullReq
          THEN /\ d'.request = NullReq /\ Live' = {}
               /\ d'.state = "ready"
               /\ [d' EXCEPT !.state = d.state, !.request = d.request] = d
               /\ IF d.state # "ready"
                  THEN /\ emitted' = <<"document.request.cancelled", "navigate.back">>
                       /\ queue' = Append(Tail(queue), Cmd("navigate.back"))
                  ELSE /\ emitted' = <<"document.request.cancelled">>
                       /\ queue' = Tail(queue)
          ELSE d' = d /\ heap' = heap /\ emitted' = <<>> /\ queue' = Tail(queue)
       /\ last.op = "document.stop" => d.request = NullReq
       /\ d.request = NullReq /\ d'.request # NullReq =>
             emitted'[Len(emitted')] = "document.request.started"]_vars

(* A fetch was cancelled before anything arrived and a second               *)
(* document.stop followed at once: only the navigate.back of the first is   *)
(* queued.                                                                  *)
C8_Witness ==
    /\ last.op = "document.stop" /\ ~last.hit
    /\ last.state0 = "ready"
    /\ d.state = "ready"
    /\ d.request = NullReq
    /\ d.doc.source.kind = "none"
    /\ Len(d.history.recent) = 1
    /\ nuser = 3
    /\ queue = <<Cmd("navigate.back")>>

(* The error pages of a status category.                                    *)
ErrorsOfCategory(cat) ==
    CASE cat = "temporaryFailure" -> {"temporaryFailure", "slowDown"}
      [] cat = "permanentFailure" -> {"permanentFailure", "notFound"}
      [] OTHER -> {"unknownStatusCode"}

Starts(seq) ==
    \E i \in 1..Len(seq) : seq[i] \in {"open", "document.request.started"}

(* C9: a dispatch that sees a temporary-failure, permanent-failure or       *)
(* unknown status replaces the document by an error page of that category,  *)
(* makes the state ready and posts nothing that starts a fetch; and a       *)
(* notification handled while an error page is shown in state ready leaves  *)
(* the page and the state as they are and starts no fetch either.          *)
C9_FailureShowsError ==
    [][/\ (/\ Dispatches
           /\ OwnedCategory \in {"temporaryFailure", "permanentFailure", "unknown"}) =>
             /\ d'.doc.source.kind = "error"
             /\ d'.doc.source.err \in ErrorsOfCategory(OwnedCategory)
             /\ d'.state = "ready"
             /\ ~Starts(emitted')
             /\ queue' = Tail(queue)
       /\ (/\ last'.op \in {"document.request.updated", "document.request.finished"}
           /\ d.state = "ready"
           /\ d.doc.source.kind = "error") =>
             /\ d'.doc = d.doc
             /\ d'.state = "ready"
             /\ ~Starts(emitted')
             /\ queue' = Tail(queue)]_vars

(* The finished notification of a request that failed was handled after     *)
(* its error page was shown, and the page is still there.                   *)
C9_Witness ==
    /\ last.op = "document.request.finished" /\ last.hit
    /\ last.state0 = "ready"
    /\ d.doc.source.kind = "error"
    /\ d.doc.source.err \in {"temporaryFailure", "notFound", "unknownStatusCode"}
    /\ d.state = "ready"
    /\ d.request = NullReq

(* C10: a finished notification handled while no request is owned is not    *)
(* accepted: nothing is read through the null pointer, and the widget       *)
(* (state, document, source content, history), the request objects and the  *)
(* rest of the queue are unchanged and nothing is emitted.                  *)
C10_FinishedWithoutRequest ==
    [][/\ Handling("document.request.finished")
       /\ last'.op = "document.request.finished"
       /\ d.request = NullReq
       => /\ ~last'.hit
          /\ pc' = "idle"
          /\ d' = d /\ heap' = heap
          /\ queue' = Tail(queue)
          /\ emitted' = <<>>]_vars

(* The completion of a request was handled after the request had been       *)
(* released.                                                                *)
C10_Witness ==
    /\ last.op = "document.request.finished"
    /\ ~last.req0
    /\ ~last.hit
    /\ d.request = NullReq
    /\ pc = "idle"

(* C11: after any combination of scrolls, jumps to the top or bottom and    *)
(* resizes the current value and the target of the scroll animation lie in  *)
(* [0, max(0, scrollMax)], scrollMax taken from the document height and the *)
(* widget height of that moment.                                            *)
C11_ScrollInRange ==
    LET m == Max(0, scrollMax_DocumentWidget_(view))
    IN  /\ 0 <= value_Anim(view.scrollY) /\ value_Anim(view.scrollY) <= m
        /\ 0 <= targetValue_Anim(view.scrollY) /\ targetValue_Anim(view.scrollY) <= m

(* C12: after every scroll of a wide block, whatever the delta, the offset *)
(* stored for the block under the pointer is at least 0 and at most the     *)
(* block's widest run minus the document width plus the page margin, and    *)
(* the offsets of all other blocks are unchanged.                           *)
C12_WideOffsetInRange ==
    [][last'.op = "scrollWideBlock" =>
          \A b \in 1..NumPre :
              IF b = view'.mouse /\ b \in view'.visibleWideRuns
              THEN /\ 0 <= StoredOffset(view', b)
                   /\ StoredOffset(view', b)
                          <= view.pre[b] - documentWidth_DocumentWidget_(view)
                                 + pageMargin * gap_UI
              ELSE StoredOffset(view', b) = StoredOffset(view, b)]_vars

(* A block that was scrolled to the right is scrolled on by the largest     *)
(* delta and stays at its largest offset.                                   *)
C12_Witness ==
    /\ last.op = "scrollWideBlock"
    /\ view.mouse \in view.visibleWideRuns
    /\ StoredOffset(view, view.mouse)
           = view.pre[view.mouse] - documentWidth_DocumentWidget_(view)
                 + pageMargin * gap_UI
    /\ \E b \in 1..NumPre : b # view.mouse /\ StoredOffset(view, b) > 0

(* C13: serializing and then deserializing the persistent state gives     *)
(* back the URL and, for a reload interval in 0..7, the reload interval;    *)
(* only a URL that contains " ptr:0x" comes back as the empty string.       *)
C13_RoundTrip ==
    last.op = "deserialize" =>
        /\ view.mod.url = IF Contains(view.saved.url, Marker) THEN <<>>
                          ELSE view.saved.url
        /\ view.saved.reloadInterval \in 0..7 =>
               view.mod.reloadInterval = view.saved.reloadInterval

(* A URL that has pieces of the marker but not the marker itself comes      *)
(* back, with the longest interval.                                         *)
C13_Witness ==
    /\ last.op = "deserialize"
    /\ view.saved.reloadInterval = 7
    /\ view.saved.url = <<58, 48, 120, 32, 112, 116, 114>>
    /\ view.mod.url = view.saved.url

(* C14: an invalidation that was already made since the last draw leaves   *)
(* the set of invalid runs as it is, so the next draw redraws the runs it   *)
(* would have redrawn without the repetition, each of them once.            *)
C14_InvalidateIdempotent ==
    [][/\ view'.again => view'.invalidRuns = view.invalidRuns
       /\ last'.op = "draw" =>
              /\ view'.redrawn = view.invalidRuns
              /\ Cardinality(Elements(view'.redrawn)) = Len(view'.redrawn)]_vars

(* The two visible runs of a link are invalidated a second time.            *)
C14_Witness ==
    /\ last.op = "invalidateLink"
    /\ view.again
    /\ Len(view.invalidRuns) = 2
    /\ \A i \in 1..2 : view.runLink[view.invalidRuns[i]] = view.arg

(* The selection with its anchor and its moving end exchanged.             *)
Reversed(v) ==
    [v EXCEPT !.selectMark = [start |-> v.selectMark.end, end |-> v.selectMark.start]]

(* C15: a selection anchored at a and extended to b addresses the span of   *)
(* the selection anchored at b and extended to a: the text copied and the   *)
(* region highlighted are those of the exchanged selection, wherever the    *)
(* document is scrolled to.                                                 *)
C15_SelectionSymmetric ==
    view.selectMark.start # 0 /\ view.selectMark.end # 0 =>
        /\ last.op = "copy" => view.copied = CopiedRange(Reversed(view))
        /\ last.op = "draw" => view.marked = TextMarkers(Reversed(view))

(* The step handles a notification of the request the widget owns, whose   *)
(* response is a success of the given top-level MIME type.                  *)
NotifiedOf(top) ==
    /\ pc = "idle" /\ queue # <<>>
    /\ Head(queue).type \in {"document.request.updated", "document.request.finished"}
    /\ last'.op = Head(queue).type
    /\ d.request # NullReq
    /\ Head(queue).req = d.request
    /\ isSuccess_GmStatusCode(heap[d.request].status)
    /\ heap[d.request].meta # <<>>
    /\ heap[d.request].meta[1].top = top

(* C16: a successful image response that is complete at its first          *)
(* notification makes the document a pseudo-document of one link, with the  *)
(* body as complete media of link 1 and no MediaRequest; a notification of  *)
(* an image response that is still incomplete stores no media data.         *)
C16_ImageWhenComplete ==
    [][NotifiedOf("image") =>
          /\ (d.state = "fetching" /\ heap[d.request].finished) =>
                 /\ d'.doc.source = LinkSource(d.url)
                 /\ d'.doc.media[1] = "full"
                 /\ \A l \in LinkIds \ {1} : d'.doc.media[l] = "none"
                 /\ d'.media = <<>>
          /\ ~heap[d.request].finished =>
                 \A l \in LinkIds :
                     d'.doc.media[l] # "none" => d'.doc.media[l] = d.doc.media[l]]_vars

(* An image that was complete when first notified is shown; the page        *)
(* before it had another source.                                            *)
C16_Witness ==
    /\ last.op = "document.request.updated"
    /\ last.hit /\ last.state0 = "fetching"
    /\ d.state = "receivedPartial"
    /\ d.doc.source = LinkSource(d.url)
    /\ d.doc.media[1] = "full"
    /\ d.request # NullReq /\ heap[d.request].finished

(* The step handles the first notification of a success response of the    *)
(* given MIME type.                                                         *)
FirstNotified(top, sub) ==
    /\ NotifiedOf(top)
    /\ heap[d.request].meta[1].sub = sub
    /\ d.state = "fetching"

(* The document after the step is the body in the given format.             *)
ShowsBodyAs(format) ==
    /\ d'.doc.format = format
    /\ d'.doc.source.kind = "body"

(* The document after the step is the pseudo-document of one link.          *)
ShowsMediaLink ==
    /\ d'.doc.format = "gemini"
    /\ d'.doc.source = LinkSource(d.url)
    /\ d'.doc.media[1] # "none"

(* The document after the step is the error page of an unsupported type.    *)
ShowsUnsupported ==
    /\ d'.doc.source.kind = "error"
    /\ d'.doc.source.err = "unsupportedMimeType"
    /\ d'.state = "ready"

(* C17 as stated: the declared MIME type of a success response decides the *)
(* document: text/gemini the structured format, other text and JSON plain   *)
(* text, image and audio the pseudo-document of one link, anything else the *)
(* error page of an unsupported type in state ready.                        *)
C17_AsStated ==
    [][/\ FirstNotified("text", "gemini") => ShowsBodyAs("gemini")
       /\ FirstNotified("text", "plain") => ShowsBodyAs("plainText")
       /\ FirstNotified("application", "json") => ShowsBodyAs("plainText")
       /\ FirstNotified("image", "png") => ShowsMediaLink
       /\ FirstNotified("audio", "ogg") => ShowsMediaLink
       /\ FirstNotified("application", "zip") => ShowsUnsupported]_vars

(* C17, amended: as stated, but an image gives the pseudo-document of one   *)
(* link once its response is complete; until then the document is empty.    *)
C17_FormatByMime ==
    [][/\ FirstNotified("text", "gemini") => ShowsBodyAs("gemini")
       /\ FirstNotified("text", "plain") => ShowsBodyAs("plainText")
       /\ FirstNotified("application", "json") => ShowsBodyAs("plainText")
       /\ FirstNotified("image", "png") =>
              IF heap[d.request].finished THEN ShowsMediaLink
              ELSE /\ d'.doc.format = "gemini"
                   /\ d'.doc.source = BodySource(<<>>)
                   /\ d'.doc.media = NoMedia
       /\ FirstNotified("audio", "ogg") => ShowsMediaLink
       /\ FirstNotified("application", "zip") => ShowsUnsupported]_vars

(* A JSON response has been notified and is shown as plain text.            *)
C17_Witness ==
    /\ last.op = "document.request.updated"
    /\ last.hit /\ last.state0 = "fetching"
    /\ d.request # NullReq
    /\ heap[d.request].meta = <<MimeParam("application", "json")>>
    /\ d.doc.format = "plainText"
    /\ d.doc.source.kind = "body"
    /\ d.state = "receivedPartial"

(* A queued notification names a request that was released: the object at  *)
(* its address is gone, or a newer request lives there that has not yet    *)
(* received anything and so cannot have issued it.                          *)
IssuedForReleased(cmd) ==
    /\ cmd.type \in {"document.request.updated", "document.request.finished"}
    /\ cmd.req # NullReq
    /\ ~heap[cmd.req].alive \/ heap[cmd.req].status = NoneStatus

(* C18: handling an updated or finished notification that was issued for a *)
(* request released since leaves the lifecycle state, the document, the     *)
(* source content, the history with its cache and the owned request as      *)
(* they were.                                                               *)
C18_StaleNotificationIgnored ==
    [][(/\ pc = "idle" /\ queue # <<>>
        /\ IssuedForReleased(Head(queue))
        /\ last'.op = Head(queue).type)
       => /\ d'.state = d.state
          /\ d'.doc = d.doc
          /\ d'.sourceContent = d.sourceContent
          /\ d'.history = d.history
          /\ d'.request = d.request
          /\ heap' = heap]_vars

(* The click handled next dismisses the content of its link while the      *)
(* sub-request of the link is still running.                                *)
DismissesUnfinished ==
    /\ Handling("click") /\ HasMediaLinks(d)
    /\ d.doc.media[Head(queue).link] # "none"
    /\ d.doc.source.kind # "link"
    /\ \E i \in 1..Len(d.media) :
          d.media[i].linkId = Head(queue).link /\ ~d.media[i].finished

(* The media notification handled next was posted by a sub-request that    *)
(* is no longer registered: no request is registered at its address, or    *)
(* the one that is fetches another link or has not received anything yet.  *)
IssuedForDismissed ==
    /\ pc = "idle" /\ queue # <<>>
    /\ Head(queue).type \in {"media.updated", "media.finished"}
    /\ \A i \in 1..Len(d.media) :
          d.media[i].addr = Head(queue).req
             => \/ d.media[i].linkId # Head(queue).link
                \/ d.media[i].status = NoneStatus

(* C19: a click that dismisses inline media whose sub-request is            *)
(* unfinished leaves no sub-request registered for the link, and a media    *)
(* notification of a sub-request dismissed earlier changes neither the      *)
(* document (no data merged, no new layout) nor the registered requests.    *)
C19_DismissedIsIgnored ==
    [][/\ (DismissesUnfinished /\ last'.op = "click")
          => findMediaRequest_DocumentWidget_(d', Head(queue).link) = 0
       /\ (IssuedForDismissed /\ last'.op = Head(queue).type)
          => d'.doc = d.doc /\ d'.media = d.media]_vars

(* The notification handled next is the media.finished of a registered     *)
(* sub-request that finished with a status other than success.              *)
MediaFailed ==
    /\ pc = "idle" /\ queue # <<>>
    /\ Head(queue).type = "media.finished"
    /\ \E i \in 1..Len(d.media) :
          /\ d.media[i].addr = Head(queue).req
          /\ d.media[i].finished
          /\ ~isSuccess_GmStatusCode(d.media[i].status)

(* C20: when the media.finished of a failed sub-request is handled, a       *)
(* message is shown, the request leaves the media list and the lifecycle    *)
(* state and the document stay as they are; a request for a link is         *)
(* registered by a click on that link only, and a click on a link that has  *)
(* no registered request registers one.                                     *)
C20_MediaFailureIsLocal ==
    [][/\ (MediaFailed /\ last'.op = "media.finished")
          => /\ \E k \in 1..Len(emitted') : emitted'[k] = "message"
             /\ \A j \in 1..Len(d'.media) : d'.media[j].addr # Head(queue).req
             /\ findMediaRequest_DocumentWidget_(d', Head(queue).link) = 0
             /\ Len(d'.media) = Len(d.media) - 1
             /\ d'.state = d.state
             /\ d'.doc = d.doc
       /\ \A l \in LinkIds :
             /\ (/\ findMediaRequest_DocumentWidget_(d, l) = 0
                 /\ findMediaRequest_DocumentWidget_(d', l) # 0)
                => /\ Handling("click") /\ Head(queue).link = l
                   /\ last'.op = "click"
             /\ (/\ Handling("click") /\ Head(queue).link = l
                 /\ last'.op = "click" /\ last'.hit
                 /\ findMediaRequest_DocumentWidget_(d, l) = 0)
                => findMediaRequest_DocumentWidget_(d', l) # 0]_vars

(* C20 happens: a failed sub-request has just been reported and removed,   *)
(* and the next command is a click on a link without a request.             *)
C20_Witness ==
    /\ last.op = "media.finished" /\ last.hit
    /\ \E k \in 1..Len(emitted) : emitted[k] = "message"
    /\ Handling("click")
    /\ HasMediaLinks(d)
    /\ findMediaRequest_DocumentWidget_(d, Head(queue).link) = 0

(* The link's icon is in view and at or below the threshold near the top.   *)
Addressable(v, l) ==
    \E run \in 1..Len(v.doc) :
        /\ v.doc[run] = "marker" /\ LinkOf(v, run) = l
        /\ RunTop(v.doc, v.width, run) < visibleRange_DocumentWidget_(v).end
        /\ RunBottom(v.doc, v.width, run) > visibleRange_DocumentWidget_(v).start
        /\ RunTop(v.doc, v.width, run)
               >= visibleRange_DocumentWidget_(v).start + 4

DocLinks == 1..MaxLines

(* What C21 says of one state: no ordinal for a link that is not            *)
(* addressable, and ordinals that follow the document order.                *)
OrdinalsInOrder(v) ==
    /\ \A l \in DocLinks :
          ~Addressable(v, l) => visibleLinkOrdinal_DocumentWidget_(v, l) = iInvalidPos
    /\ \A l1, l2 \in DocLinks :
          (Addressable(v, l1) /\ Addressable(v, l2) /\ l1 < l2)
             => /\ visibleLinkOrdinal_DocumentWidget_(v, l1) >= 0
                /\ visibleLinkOrdinal_DocumentWidget_(v, l1)
                      < visibleLinkOrdinal_DocumentWidget_(v, l2)

(* C21 as stated: a link that is not addressable has no ordinal, distinct   *)
(* addressable links have distinct ordinals in document order, and a link   *)
(* that is addressable before and after a scroll, vertical or horizontal,   *)
(* keeps its ordinal.                                                       *)
C21_AsStated ==
    [][/\ OrdinalsInOrder(view')
       /\ \A l \in DocLinks :
             (Addressable(view, l) /\ Addressable(view', l))
                => visibleLinkOrdinal_DocumentWidget_(view', l)
                      = visibleLinkOrdinal_DocumentWidget_(view, l)]_vars

(* C21, amended: as stated, but a link keeps its ordinal over a scroll      *)
(* when the addressable links before it are the same before and after; a    *)
(* horizontal scroll changes no ordinal.                                    *)
C21_OrdinalOfLink ==
    [][/\ OrdinalsInOrder(view')
       /\ \A l \in DocLinks :
             (/\ Addressable(view, l) /\ Addressable(view', l)
              /\ \A k \in 1..(l - 1) : Addressable(view, k) <=> Addressable(view', k))
                => visibleLinkOrdinal_DocumentWidget_(view', l)
                      = visibleLinkOrdinal_DocumentWidget_(view, l)
       /\ last'.op = "scrollWideBlock"
             => \A l \in DocLinks :
                   visibleLinkOrdinal_DocumentWidget_(view', l)
                      = visibleLinkOrdinal_DocumentWidget_(view, l)]_vars

(* C21 happens: after a scroll the first link is in view but above the      *)
(* threshold, and the second link has the first ordinal.                    *)
C21_Witness ==
    /\ last.op \in {"scroll", "frame"}
    /\ 1 \in {LinkOf(view, view.visibleLinks[i]) : i \in 1..Len(view.visibleLinks)}
    /\ visibleLinkOrdinal_DocumentWidget_(view, 1) = iInvalidPos
    /\ visibleLinkOrdinal_DocumentWidget_(view, 2) = 0

(* The label that shows a key: the circled digit or the circled letter.     *)
LabelOfKey(key) ==
    IF key >= Key1 /\ key <= Key9 THEN CircledOne + key - Key1
    ELSE CircledA + key - KeyA

(* C22: the label drawn for the ordinal of a key shows that key, and no     *)
(* other key has the ordinal. With numbers and alphabet the digits 1-9      *)
(* take the ordinals 0-8 and each letter the ordinal 9 plus the number of   *)
(* letters before it that have an ordinal; the home row list is a           *)
(* permutation of the 26 letters.                                           *)
C22_KeysAndLabels ==
    /\ (last.op = "keydown" /\ view.keyOrd # iInvalidPos)
          => /\ view.keyChar = LabelOfKey(view.key)
             /\ \A k \in Keys \ {view.key} :
                   linkOrdinalFromKey_DocumentWidget_(view, k) # view.keyOrd
             /\ view.ordinalMode = "numbersAndAlphabet"
                   => IF view.key <= Key9 THEN view.keyOrd = view.key - Key1
                      ELSE view.keyOrd = 9 + Cardinality(
                               {k \in KeyA..(view.key - 1) :
                                   linkOrdinalFromKey_DocumentWidget_(view, k)
                                       # iInvalidPos})
    /\ (last.op = "keydown" /\ view.keyOrd = iInvalidPos
           /\ view.ordinalMode = "numbersAndAlphabet")
          => \/ view.key \notin (Key1..Key9) \cup (KeyA..KeyZ)
             \/ view.apple /\ view.key \in {AppleKeys[i] : i \in 1..Len(AppleKeys)}
    /\ Len(homeRowKeys_) = 26
    /\ {homeRowKeys_[i] : i \in 1..Len(homeRowKeys_)} = KeyA..KeyZ

(* C22 happens: on the Apple build the key x was pressed, the fourth        *)
(* excluded letter before it.                                               *)
C22_Witness ==
    /\ last.op = "keydown"
    /\ view.apple /\ view.ordinalMode = "numbersAndAlphabet"
    /\ view.key = 120 /\ view.keyOrd = 28

(* The link a key press activated, 0 when it activated none: activation    *)
(* opens the link or makes it the hover link, and hides the numbers.        *)
Activated ==
    IF view.showLinkNumbers /\ ~view'.showLinkNumbers
    THEN IF view.setHoverViaKeys THEN LinkOf(view, view'.hoverLink)
         ELSE view'.opened
    ELSE 0

MarkerOf(v, l) == CHOOSE run \in 1..Len(v.doc) : IsMarker(v, run) /\ LinkOf(v, run) = l

(* C26: a key press activates a link only if the link is drawn with the     *)
(* label of that key, and a key without an ordinal in the current mode      *)
(* activates no link, whatever the ordinal base.                            *)
C26_KeyActivatesLabelled ==
    [][last'.op = "keydown"
         => /\ Activated # 0
                 => OrdinalLabel(view, MarkerOf(view, Activated))
                       = LabelOfKey(view'.key)
            /\ linkOrdinalFromKey_DocumentWidget_(view, view'.key) = iInvalidPos
                 => Activated = 0]_vars

(* The lock calls of one handler run pair up: each acquisition is followed  *)
(* at once by a release with the same pointer, made while the widget still  *)
(* owns the request, and there is no other release.                         *)
Paired(locks) ==
    /\ Len(locks) % 2 = 0
    /\ \A i \in 1..Len(locks) :
          IF i % 2 = 1
          THEN locks[i].e = "lock" /\ locks[i].owned
          ELSE /\ locks[i].e = "unlock" /\ locks[i].owned
               /\ locks[i].kind = locks[i - 1].kind /\ locks[i].r = locks[i - 1].r

(* C23: every acquisition of the response critical section is followed on   *)
(* every path by exactly one release on the same request while the request  *)
(* is still owned; no release is made on a released or null request.        *)
C23_LockDiscipline == Paired(last.locks)

(* C24: after an operation that replaces or lays out anew the run list, no  *)
(* reference into the previous run list (first and last visible run, hover  *)
(* and context link, the visible links, the invalidated runs) is read       *)
(* before it is cleared or recomputed.                                      *)
C24_NoStaleRunRead == view.refs.read = {}

(* The updated notifications in the queue that carry the pointer of the     *)
(* request the widget owns.                                                 *)
QueuedUpdates ==
    {i \in 1..Len(queue) :
        /\ queue[i].type = "document.request.updated"
        /\ d.request # NullReq /\ queue[i].req = d.request}

(* C25: at most one updated notification is queued and unconsumed for the   *)
(* current primary request, and while one is queued, or is being handled,   *)
(* the flag stays set: it is cleared only after the notification has been   *)
(* processed.                                                               *)
C25_OneUpdateQueued ==
    /\ Cardinality(QueuedUpdates) <= 1
    /\ QueuedUpdates # {} => d.isRequestUpdated
    /\ pc = "updated.reset" => d.isRequestUpdated /\ QueuedUpdates = {}

(* C27: while the lifecycle state is fetching or receivedPartial the widget *)
(* owns a live primary request, and while it owns none the state is blank   *)
(* or ready.                                                                *)
C27_StateMatchesRequest ==
    pc # "crashed"
       => /\ d.state \in {"fetching", "receivedPartial"}
                => d.request # NullReq /\ heap[d.request].alive
          /\ d.request = NullReq => d.state \in {"blank", "ready"}

(* The open command at the head of the queue is served from the cache: it   *)
(* comes from the history and the history holds a response for its URL.     *)
ServedFromCache ==
    /\ Head(queue).hist
    /\ findUrl_History(d.history, Head(queue).url) # 0
    /\ d.history.recent[findUrl_History(d.history, Head(queue).url)].cached.alive

(* C28: a call that sets the URL submits exactly one primary request and    *)
(* emits exactly one fetch-started command when the page is not served      *)
(* from the cache; when it is, no request is submitted, the state becomes   *)
(* ready and document-changed is emitted.                                   *)
C28_OneFetchPerUrl ==
    [][(Handling("open") /\ last'.op = "open")
         => IF ServedFromCache
            THEN /\ CountOf("document.request.started", emitted') = 0
                 /\ CountOf("document.changed", emitted') = 1
                 /\ d'.state = "ready"
                 /\ heap' = heap /\ d'.request = d.request
            ELSE /\ CountOf("document.request.started", emitted') = 1
                 /\ d'.request # NullReq /\ heap'[d'.request] = NewObject
                 /\ d'.state = "fetching"]_vars

(* The document shows the whole of a response: its text (converted when a   *)
(* charset is declared), or the link with the complete media, or the page   *)
(* that says the type is not supported.                                     *)
ReflectsBody(doc, resp, u) ==
    LET fmt == ParamFormat(resp.meta[1])
        conv == IF Len(resp.meta) > 1 /\ resp.meta[2].k = "charset"
                   /\ resp.meta[2].v # "utf-8"
                THEN decode_Block(resp.body) ELSE resp.body
    IN  CASE fmt \in {"gemini", "plainText"} -> doc.source = BodySource(conv)
          [] fmt = "media" -> doc.source = LinkSource(u) /\ doc.media[1] = "full"
          [] OTHER -> doc.source.kind = "error"

(* Body data of the owned request that the source content does not hold     *)
(* yet are not lost: the transport is still running, or its finished        *)
(* notification is queued.                                                  *)
DataPending ==
    (/\ d.request # NullReq
     /\ isSuccess_GmStatusCode(heap[d.request].status)
     /\ d.sourceContent # heap[d.request].body
     /\ heap[d.request].finished)
       => \E i \in 1..Len(queue) :
              /\ queue[i].type = "document.request.finished"
              /\ queue[i].req = d.request

NoDataLostWhileFetching ==
    [][/\ DataPending'
       /\ FinishesSuccess
             => /\ d'.sourceContent = heap[d.request].body
                /\ d.state \in {"fetching", "receivedPartial"}
                      => ReflectsBody(d'.doc, heap[d.request], d.url)]_vars

(* The transport of the owned request has reported completion.              *)
Completed == d.request # NullReq /\ heap[d.request].alive /\ heap[d.request].finished

(* The fetch has ended by its finished notification: ready, nothing owned.  *)
EndedReady ==
    /\ last.op = "document.request.finished" /\ last.hit
    /\ d.state = "ready" /\ d.request = NullReq

(* The fetch was superseded by another fetch or a restored page, cancelled, *)
(* or redirected.                                                           *)
EndedOtherwise ==
    \/ last.op \in {"open", "document.reload", "document.stop", "navigate.back"}
    \/ last.op = "document.request.updated" /\ d.request = NullReq

(* C30: when the owning thread keeps handling the queued commands, a        *)
(* primary fetch whose transport has reported completion and that is not    *)
(* superseded, cancelled or redirected reaches the state ready with the     *)
(* request released, whatever the category of its status.                   *)
C30_CompletedBecomesReady ==
    Completed ~> (~Completed /\ (EndedReady \/ EndedOtherwise))

(* C30 happens: a fetch that asked for input has ended in ready.            *)
C30_Witness ==
    /\ EndedReady
    /\ \E i \in 1..Len(emitted) : emitted[i] = "valueinput"

(* The paint operations of the last draw on the runs of one buffer.         *)
OpsAt(op, i) ==
    {k \in 1..Len(view.paint) : view.paint[k].op = op /\ view.paint[k].buf = i}

(* The last step was the draw of a widget that has a width.                 *)
Synced == last.op = "draw.sync" /\ view.width > 0

(* C31: in a cache sync, in each buffer the background of every invalid run *)
(* overlapping it is cleared before any invalid run is redrawn there, every *)
(* invalid run overlapping the buffer is redrawn, the set of invalid runs   *)
(* is cleared after the last buffer, and the set is empty afterwards.       *)
C31_SyncOrder ==
    [][last'.op = "draw.sync" /\ view.width > 0 =>
        LET paint == view'.paint
            at(op, i) == {k \in 1..Len(paint) : paint[k].op = op /\ paint[k].buf = i}
            invalidAt(i) ==
                {run \in SyncRuns :
                    /\ run \in Elements(view.invalidRuns)
                    /\ isOverlapping_Rangei(bufRange(view, i),
                                            ySpan_Rect(view.heights, run))}
        IN  /\ \A i \in Buffers :
                /\ {paint[k].run : k \in at("fillRect", i)} = invalidAt(i)
                /\ {paint[k].run : k \in at("drawRun", i)} = invalidAt(i)
                /\ \A f \in at("fillRect", i), g \in at("drawRun", i) : f < g
            /\ paint[Len(paint)].op = "clear_PtrSet"
            /\ \A k \in 1..(Len(paint) - 1) : paint[k].op # "clear_PtrSet"
            /\ view'.invalidRuns = <<>>]_vars

(* A sync that cleared and redrew two invalid runs in one buffer.           *)
C31_Witness ==
    /\ Synced
    /\ \E i \in Buffers : Cardinality(OpsAt("drawRun", i)) >= 2
    /\ \E i, j \in Buffers : i # j /\ OpsAt("drawRun", i) # {} /\ OpsAt("drawRun", j) # {}

(* C32: whenever the selection mark or the find mark is set, the stored     *)
(* horizontal offset of every wide block is zero.                           *)
C32_MarksWithoutOffsets ==
    (view.selectMark.start # 0 \/ view.foundMark.start # 0)
        => \A preId \in 1..NumPre : StoredOffset(view, preId) = 0

(* C33: whenever animWideRunId is not zero, animWideRunRange points into    *)
(* the current run list, so that no tick reads a range of a replaced list;  *)
(* and a tick that finds the animation finished sets animWideRunId to 0.    *)
C33_AnimRangeCurrent ==
    /\ view.animWideRunId # 0 => view.animWideRunRange = "current"
    /\ view.rangeRead # "previous"
    /\ last.op = "tick" /\ isFinished_Anim(view.animWideRunOffset)
           => view.animWideRunId = 0

(* C34: after a fetch from any state the request owned before is released,  *)
(* a new request is owned and submitted, the media list is empty, the       *)
(* certificate flags and the link numbers are off, the update flag is       *)
(* clear and the state is fetching; the URL, the document and the scroll    *)
(* position are as before.                                                  *)
C34_FetchEffect ==
    [][last'.op = "fetch" =>
        /\ (d.request # NullReq /\ d'.request # d.request) => ~heap'[d.request].alive
        /\ d'.request # NullReq /\ heap'[d'.request] = NewObject
        /\ \A a \in Addrs : heap'[a].alive => a = d'.request
        /\ d'.media = <<>>
        /\ d'.certFlags = {}
        /\ ~d'.showLinkNumbers
        /\ ~d'.isRequestUpdated
        /\ d'.state = "fetching"
        /\ d'.url = d.url
        /\ d'.doc = d.doc
        /\ view' = view]_vars

(* A fetch of a widget that owned a request, had received a part of its    *)
(* response and shows a document.                                           *)
C34_Witness ==
    /\ last.op = "fetch" /\ last.req0 /\ last.state0 = "receivedPartial"
    /\ d.state = "fetching" /\ d.request # NullReq
    /\ d.doc.source # EmptySource

(* The handler of the last step called scrollToHeading_DocumentWidget_.     *)
Applied(em) == \E i \in 1..Len(em) : em[i] = "scrollToHeading"

(* C35: a goto handled while a request is ongoing is not applied but kept   *)
(* pending; the pending heading is applied, once, and forgotten when the    *)
(* finished notification of that request is handled, so it does not         *)
(* outlive the request; a goto handled while no request is ongoing is       *)
(* applied at once and leaves nothing pending.                              *)
C35_PendingGoto ==
    [][/\ (last'.op = "document.goto" /\ d.request # NullReq)
            => ~Applied(emitted') /\ d'.pendingGotoHeading = Head(queue).heading
       /\ (last'.op = "document.goto" /\ d.request = NullReq)
            => Applied(emitted') /\ d'.pendingGotoHeading = ""
       /\ (last'.op = "document.request.finished" /\ last'.hit /\ pc' # "crashed")
            => /\ d'.pendingGotoHeading = ""
               /\ Applied(emitted') <=> d.pendingGotoHeading # ""
       /\ (d.pendingGotoHeading # "" /\ d'.request # d.request)
            => /\ last'.op = "document.request.finished"
               /\ d'.pendingGotoHeading = ""]_vars


(* The links that a key can address: their icon is in view, at or below    *)
(* the top threshold.                                                       *)
AddressableLinks(v) == {l \in 1..MaxKeyLinks : Addressable(v, l)}

ActiveMedia(v) ==
    \E i \in 1..Len(v.visibleMedia) :
        LET run == v.visibleMedia[i]
        IN  \/ v.runMedia[run] = "download"
            \/ /\ v.runMedia[run] = "audio"
               /\ \/ v.players[run].adjustingVolume
                  \/ v.players[run].started /\ ~v.players[run].paused

(* C37: the widget has at most one media timer; a timer is started only     *)
(* when the widget shows the current document and some visible media is an  *)
(* active audio player or a download; a tick that finds no such media, or   *)
(* finds that the document is not the current one, stops the timer.         *)
C37_MediaTimer ==
    [][/\ view'.timers <= 1
       /\ view'.timers = (IF view'.mediaTimer # 0 THEN 1 ELSE 0)
       /\ (view'.sdlCall = "add" \/ view'.timers > view.timers)
             => view'.current /\ ActiveMedia(view')
       /\ (/\ last'.op = "media.player.update"
           /\ ~view.current \/ ~ActiveMedia(view) \/ ~ActiveMedia(view'))
             => view'.timers = 0 /\ view'.mediaTimer = 0]_vars

(* C37 happens: a tick has stopped the timer of a widget that shows the     *)
(* current document, whose visible players have all come to rest.           *)
C37_Witness ==
    /\ last.op = "media.player.update"
    /\ view.sdlCall = "remove"
    /\ view.current
    /\ view.visibleMedia # <<>>


(* The intervals of the auto-reload menu, in seconds: never (0), 1 minute,  *)
(* 5 minutes, 15 minutes, 1 hour, 4 hours, 12 hours, 1 day.                 *)
IntervalSeconds == <<0, 60, 300, 900, 3600, 14400, 43200, 86400>>

(* C38: an auto-reload tick posts a reload only if the interval is not      *)
(* "never" and either no reception time is recorded or the seconds elapsed  *)
(* since the content was received are at least the chosen interval; with    *)
(* "never" no tick posts a reload.                                          *)
C38_AutoReload ==
    [][last'.op = "document.autoreload"
         => /\ view'.reloadPosted
                 => /\ view.mod.reloadInterval # 0
                    /\ \/ ~view.sourceValid
                       \/ view'.elapsed >= IntervalSeconds[view.mod.reloadInterval + 1]
            /\ view.mod.reloadInterval = 0 => ~view'.reloadPosted]_vars

====
